---- MODULE Spec2Model ----
(***************************************************************************)
(* Model of the multi-device live preview of the Celebrations admin page   *)
(* (devicePreview.js and its callers in themeOptions.js, formHandler.js    *)
(* and main.js).                                                           *)
(*                                                                         *)
(* The browser runs one event loop.  Every action below is one task of     *)
(* that loop (a DOM event, a timer, a network completion) together with    *)
(* the microtasks it leaves behind (the continuations of `await` on        *)
(* values that are already settled), because the loop drains the microtask *)
(* queue before it takes the next task.                                    *)
(***************************************************************************)
EXTENDS Integers, Sequences, FiniteSets, TLC

VARIABLES
  page,               \* admin document: "loading" | "interactive" | "complete"
  iframe,             \* module variable iframe: "null" | "attached"
  currentDevice,      \* module variable currentDevice
  isInitialized,      \* module variable isInitialized
  initialPreviewDone, \* module variable initialPreviewDone
  deviceDisplay,      \* style.display of each device container
  overlayExists,      \* #preview-loading-overlay is in the admin document
  overlayDisplay,     \* its style.display
  overlayPointer,     \* its style.pointerEvents
  previewDisabled,    \* #preview-button.disabled
  createDisabled,     \* #create-button.disabled
  editDisabled,       \* #update-button, #cancel-edit-btn, #reset-button .disabled
  navPending,         \* the iframe has a navigation whose load event is still to come
  onload,             \* iframe.onload: unset, switchToDevice's handler, or the resolve of an updatePreview
  rafSwitch,          \* the load listener's requestAnimationFrame chain is pending
  docHolder,          \* the updatePreview whose doc is the iframe's current document (0: none)
  doc,                \* theme-tagged link/script elements of the iframe's current document, in document order
  hideQueue,          \* pending 2500 ms timers of hideLoadingOverlay, oldest first (0: nobody awaits it)
  resizing,           \* the flag resizing of setupAutoReposition
  resizeFrame,        \* the 120 ms timer of the resize listener is pending
  frames,             \* pending animation-frame callbacks updateDuringResize
  isProcessingThemeAction, \* module variable isProcessingThemeAction
  del,                \* the delete click handlers under way: where each is, and for which theme
  buttonsDisabled,    \* the .btn-action buttons of the grid are disabled
  cards,              \* the themes that have a card in the grid
  dom,                \* how many elements of the admin document have each id the preview creates
  blocker,            \* the iframe's current document holds the script of injectDisableInteractions
  inv,                \* the updatePreview invocations made so far
  form,               \* state of the admin form inputs
  themeSelectValue,   \* #theme-select.value
  visibleGroup,       \* theme whose "<theme>-options" group is displayed
  editing,            \* theme shown in the editor, "none" outside the editor
  htu,                \* position of ThemeManager.handleThemeUpdate
  submit,             \* position of submitThemeForm
  enableTimers,       \* pending 5000 ms re-enable timers of submitThemeForm
  iframeStyle,        \* style.transform, style.width, style.height of the iframe
  overlayStyle,       \* style.transform, style.width, style.height of the loading overlay
  posTimer,           \* a positionIframe call is due: a timer of the form handlers, a ResizeObserver notification
  resizeObserver,     \* window.ResizeObserver exists in this browser
  lastKey,            \* the deviceKey of the last switchToDevice call
  screens,            \* the devices whose screen element is in the admin document
  nOps                \* user operations so far

vars == << page, iframe, currentDevice, isInitialized, initialPreviewDone,
           deviceDisplay, overlayExists, overlayDisplay, overlayPointer,
           previewDisabled, createDisabled, editDisabled, navPending, onload,
           rafSwitch, docHolder, doc, hideQueue, inv, form, themeSelectValue,
           visibleGroup, editing, htu, submit, enableTimers,
           iframeStyle, overlayStyle, posTimer, resizeObserver, lastKey,
           screens, blocker, dom, resizing, resizeFrame, frames,
           isProcessingThemeAction, del, buttonsDisabled, cards, nOps >>

----------------------------------------------------------------------------
(* Bounds of the exploration *)

MaxOps == 2       \* clicks, changes and submissions of the user in one run

----------------------------------------------------------------------------
(* Configuration data read by the preview core *)

Range(s) == {s[k] : k \in 1..Len(s)}

DEVICE_CONFIG ==
  [ ordi   |-> [baseWidth |-> 1300, container |-> ".monitor-preview", screen |-> ".screenOrdi .content"],
    tel    |-> [baseWidth |-> 500,  container |-> ".iphone", screen |-> ".iphone .screenMobile"],
    tablet |-> [baseWidth |-> 800,  container |-> ".ipad", screen |-> ".ipad .screenMobile"] ]

DeviceKeys == DOMAIN DEVICE_CONFIG

\* Names every object literal inherits a property for; DEVICE_CONFIG[name] is
\* truthy for them although name is no key of DEVICE_CONFIG.
InheritedKeys == {"constructor", "toString", "hasOwnProperty"}

\* deviceMap of initRadioListeners: the identifier of the radio at each index
deviceMap == << "ordi", "tel", "tablet" >>

\* deviceMap[index], "undefined" for a radio beyond the third
RadioKeys == Range(deviceMap) \cup {"undefined"}

\* Variant of HasConfig that lets every identifier through.
AnyDevice(deviceKey) == TRUE

\* DEVICE_CONFIG[deviceKey] is truthy
HasConfig(deviceKey) == deviceKey \in DeviceKeys \cup InheritedKeys

\* getBoundingClientRect() of each device's screen element while its
\* container is displayed, as the page's style sheet lays it out
ScreenRect ==
  [ ordi   |-> [left |-> 100, top |-> 50, width |-> 650, height |-> 400],
    tel    |-> [left |-> 300, top |-> 60, width |-> 325, height |-> 650],
    tablet |-> [left |-> 200, top |-> 40, width |-> 400, height |-> 560] ]

\* The quotient a / b, kept as a fraction
Ratio(a, b) == [num |-> a, den |-> b]

\* x / r for a fraction r
DivideBy(x, r) == Ratio(x * r.den, r.num)

\* No inline transform, width or height
NoStyle ==
  [set |-> FALSE, translate |-> << 0, 0 >>, scale |-> Ratio(0, 1), width |-> 0, height |-> Ratio(0, 1)]

\* Variant of Layout that scales by the desktop profile's baseWidth.
LayoutByDesktopBase(deviceKey) ==
  LET config == DEVICE_CONFIG[deviceKey]
      rect   == ScreenRect[deviceKey]
      scale  == Ratio(rect.width, DEVICE_CONFIG["ordi"].baseWidth)
  IN [set |-> TRUE, translate |-> << rect.left, rect.top >>, scale |-> scale,
      width |-> config.baseWidth, height |-> DivideBy(rect.height, scale)]

\* The transform, width and height positionIframe computes for a device
Layout(deviceKey) ==
  LET config == DEVICE_CONFIG[deviceKey]
      rect   == ScreenRect[deviceKey]
      scale  == Ratio(rect.width, config.baseWidth)
  IN [set |-> TRUE, translate |-> << rect.left, rect.top >>, scale |-> scale,
      width |-> config.baseWidth, height |-> DivideBy(rect.height, scale)]

\* Variant of positionIframe that leaves the overlay as it is.
positionIframeAlone(ifr, initialized, overlay, device, present, styles) ==
  IF ifr = "null" \/ ~initialized \/ ~overlay \/ device \notin DeviceKeys
     \/ device \notin present
  THEN styles
  ELSE [styles EXCEPT !.iframe = Layout(device)]

\* Variant of positionIframe that lays out without looking for the screen element.
positionIframeAnyScreen(ifr, initialized, overlay, device, present, styles) ==
  IF ifr = "null" \/ ~initialized \/ ~overlay \/ device \notin DeviceKeys
  THEN styles
  ELSE [iframe |-> Layout(device), overlay |-> Layout(device)]

\* positionIframe(): the styles of the iframe and of the overlay after it,
\* given the module state it reads.  For an inherited name config.screen is
\* undefined and no screen element is found.
positionIframe(ifr, initialized, overlay, device, present, styles) ==
  IF ifr = "null" \/ ~initialized \/ ~overlay THEN styles
  ELSE IF ~HasConfig(device) THEN styles
  ELSE IF device \notin DeviceKeys \/ device \notin present THEN styles
  ELSE [iframe |-> Layout(device), overlay |-> Layout(device)]

NoTheme == ""

\* The values of iframe.onload
Unset == [kind |-> "unset", of |-> 0]
SwitchHandler == [kind |-> "switch", of |-> 0]
Resolve(i) == [kind |-> "resolve", of |-> i]
\* resolve of a promise that is settled already: calling it again does nothing
Resolved == [kind |-> "resolved", of |-> 0]

\* An extra option without css/js carries "" there; an element without file carries "".
rawThemes ==
  [ noel |->
      [elements |-> <<
         [name |-> "flocons", setting |-> "toggle_flocons", file |-> "flocons", type |-> "both",
          extra_options |-> << [key |-> "quantite_flocons", type |-> "normal", css |-> "", js |-> ""],
                               [key |-> "api_namespace",    type |-> "ignore", css |-> "", js |-> ""] >>],
         [name |-> "neige", setting |-> "toggle_neige", file |-> "flocons", type |-> "js",
          extra_options |-> << >>] >>],
    paques |->
      [elements |-> <<
         [name |-> "oeufs", setting |-> "choix_oeufs", file |-> "oeufs", type |-> "css",
          extra_options |-> << [key |-> "couleur_oeufs", type |-> "normal", css |-> "", js |-> "oeufs-extra"] >>] >>] ]

Themes == DOMAIN rawThemes

\* window[key], the process-wide environment map read for "ignore" options
Window == [api_namespace |-> "Celebrations-api"]

Url(type, theme, file) == [type |-> type, theme |-> theme, file |-> file]
ExtUrl(type, ref) == [type |-> type, theme |-> "", file |-> ref]

Checkbox(c) == [type |-> "checkbox", checked |-> c, value |-> "on"]
Field(v) == [type |-> "text", checked |-> FALSE, value |-> v]

\* The values saved on the server for the configured themes, as form inputs
SavedForm ==
  [toggle_flocons |-> Checkbox(TRUE),  toggle_neige |-> Checkbox(TRUE),
   quantite_flocons |-> Field("50"), choix_oeufs |-> Field("x"), couleur_oeufs |-> Field("rouge")]

\* The form states the exploration draws from.
FormStates ==
  { SavedForm,
    [toggle_flocons |-> Checkbox(FALSE), toggle_neige |-> Checkbox(FALSE),
     quantite_flocons |-> Field(""), choix_oeufs |-> Field(""), couleur_oeufs |-> Field("")] }

----------------------------------------------------------------------------
(* AssetCollector: collectThemeAssets and what it reads *)

Null == [type |-> "null", checked |-> FALSE, value |-> ""]

\* document.getElementById on the admin form: Null when no such input
getById(f, id) == IF id \in DOMAIN f THEN f[id] ELSE Null

\* window[key]: "undefined" when the environment map has no such key
WindowGet(k) == IF k \in DOMAIN Window THEN Window[k] ELSE "undefined"

\* obj[k] = v on a plain object
Put(o, k, v) == [x \in (DOMAIN o) \cup {k} |-> IF x = k THEN v ELSE o[x]]

NoAssets == [cssFiles |-> << >>, jsFiles |-> << >>, jsOptions |-> << >>]

\* Variant of extraActive that takes every auxiliary input as active.
extraAlwaysActive(extraInput) == TRUE

\* extraInput?.type === 'checkbox' ? extraInput.checked : !!extraInput?.value
extraActive(extraInput) ==
  IF extraInput.type = "checkbox" THEN extraInput.checked ELSE extraInput.value # ""

\* Variant of AddByType that adds the file to both lists whatever the type.
AddToBoth(acc, type, selectedTheme, file) ==
  [acc EXCEPT !.cssFiles = Append(@, Url("css", selectedTheme, file)),
              !.jsFiles = Append(@, Url("js", selectedTheme, file))]

\* The element's file, pushed on cssFiles and/or jsFiles by its type
AddByType(acc, type, selectedTheme, file) ==
  LET withCss == IF type \in {"css", "both"}
                 THEN [acc EXCEPT !.cssFiles = Append(@, Url("css", selectedTheme, file))]
                 ELSE acc
  IN IF type \in {"js", "both"}
     THEN [withCss EXCEPT !.jsFiles = Append(@, Url("js", selectedTheme, file))]
     ELSE withCss

RECURSIVE CollectExtras(_, _, _, _)
CollectExtras(opts, k, acc, f) ==
  IF k > Len(opts) THEN acc
  ELSE
    LET opt == opts[k] IN
    IF opt.type = "ignore"
    THEN CollectExtras(opts, k + 1,
                       [acc EXCEPT !.jsOptions = Put(@, opt.key, WindowGet(opt.key))], f)
    ELSE
      LET extraInput  == getById(f, opt.key)
          withCss == IF opt.css # ""
                     THEN [acc EXCEPT !.cssFiles = Append(@, ExtUrl("css", opt.css))]
                     ELSE acc
          withJs  == IF opt.js # ""
                     THEN [withCss EXCEPT !.jsFiles = Append(@, ExtUrl("js", opt.js))]
                     ELSE withCss
          withVal == IF extraInput.value # ""
                     THEN [withJs EXCEPT !.jsOptions = Put(@, opt.key, extraInput.value)]
                     ELSE withJs
      IN CollectExtras(opts, k + 1, IF extraActive(extraInput) THEN withVal ELSE acc, f)

RECURSIVE CollectElements(_, _, _, _, _)
CollectElements(elements, k, acc, selectedTheme, f) ==
  IF k > Len(elements) THEN acc
  ELSE
    LET element  == elements[k]
        input    == getById(f, element.setting)
        isActive == IF input.type = "checkbox" THEN input.checked ELSE TRUE
        type     == IF element.type = "" THEN "both" ELSE element.type
        withJs   == AddByType(acc, type, selectedTheme, element.file)
        withOpts == CollectExtras(element.extra_options, 1, withJs, f)
    IN CollectElements(elements, k + 1,
                       IF ~isActive \/ element.file = "" THEN acc ELSE withOpts,
                       selectedTheme, f)

collectThemeAssets(themeData, selectedTheme, f) ==
  CollectElements(themeData.elements, 1, NoAssets, selectedTheme, f)

----------------------------------------------------------------------------
(* CrossDocumentInjector: the theme-tagged elements of an iframe document *)

\* The document a navigation of the iframe to the preview endpoint ends with:
\* the served page, which holds no element injected by this script.
FreshDocument == [head |-> << >>, body |-> << >>]

Link(href, theme) == [tag |-> "link", src |-> href, text |-> << >>, theme |-> theme]
Script(src, theme) == [tag |-> "script", src |-> src, text |-> << >>, theme |-> theme]

\* An element carries data-theme iff its theme field is not "".
Untagged(e) == e.theme = ""

\* An element the selector 'link[data-theme], script[data-theme]' does not match
Unmatched(e) == e.tag \notin {"link", "script"} \/ Untagged(e)

\* An element the selector 'link[data-theme]' does not match
UnmatchedLink(e) == e.tag # "link" \/ Untagged(e)

\* Variant of cleanOldAssets whose selector is 'link[data-theme]' alone.
cleanOldLinks(d) ==
  [head |-> SelectSeq(d.head, UnmatchedLink), body |-> SelectSeq(d.body, UnmatchedLink)]

cleanOldAssets(d) ==
  [head |-> SelectSeq(d.head, Unmatched), body |-> SelectSeq(d.body, Unmatched)]

\* Variant of injectCSSFiles that puts each link in front of the head's children.
injectCSSFilesPrepended(d, cssFiles, selectedTheme) ==
  [d EXCEPT !.head = [k \in 1..Len(cssFiles) |->
                        Link(cssFiles[Len(cssFiles) + 1 - k], selectedTheme)] \o @]

injectCSSFiles(d, cssFiles, selectedTheme) ==
  [d EXCEPT !.head = @ \o [k \in 1..Len(cssFiles) |-> Link(cssFiles[k], selectedTheme)]]

\* JSON.stringify of a plain object leaves out the keys whose value is undefined
JSONstringify(o) == [k \in {x \in DOMAIN o : o[x] # "undefined"} |-> o[k]]

\* Variant of generateOptionsScript without the test for an empty object.
generateOptionsScriptAlways(selectedTheme, jsOptions) ==
  [empty |-> FALSE, global |-> selectedTheme, json |-> JSONstringify(jsOptions)]

\* '' when there is no key, else the text window["<theme>ThemeOptions"] = <json>;
generateOptionsScript(selectedTheme, jsOptions) ==
  IF DOMAIN jsOptions = {}
  THEN [empty |-> TRUE,  global |-> "", json |-> << >>]
  ELSE [empty |-> FALSE, global |-> selectedTheme, json |-> JSONstringify(jsOptions)]

OptionsScript(optionsScript, selectedTheme) ==
  [tag |-> "script", src |-> Url("options", optionsScript.global, ""),
   text |-> optionsScript.json, theme |-> selectedTheme]

\* Variant of Unique that keeps every occurrence.
EveryOccurrence(s) == s

\* [...new Set(jsFiles)]: first occurrences, in order
RECURSIVE Unique(_)
Unique(s) ==
  IF s = << >> THEN << >>
  ELSE LET rest == Unique(SubSeq(s, 1, Len(s) - 1))
           last == s[Len(s)]
       IN IF \E k \in 1..Len(rest) : rest[k] = last THEN rest ELSE Append(rest, last)

\* s without its k-th entry
Without(s, k) == SubSeq(s, 1, k - 1) \o SubSeq(s, k + 1, Len(s))

----------------------------------------------------------------------------
(* The part of the state that showLoadingOverlay, hideLoadingOverlay and   *)
(* updatePreview write, as one record, so that a handler that calls them   *)
(* several times is still one action.                                      *)

\* The admin document before the preview has created anything
NoElement == [iframes |-> 0, containers |-> 0, overlays |-> 0]

\* Variant of createFixedIframeContainer without its guard.
createFixedIframeContainerAgain(d) == [d EXCEPT !.containers = @ + 1]

\* createFixedIframeContainer(): the module variable iframeContainer is set
\* with the first container and the container is never removed, so it is set
\* iff the document has a container.
createFixedIframeContainer(d) ==
  IF d.containers > 0 THEN d ELSE [d EXCEPT !.containers = @ + 1]

\* createIframe() while the module variable iframe is ifr
createIframe(d, ifr) ==
  IF ifr # "null" THEN d ELSE [createFixedIframeContainer(d) EXCEPT !.iframes = @ + 1]

\* createLoadingOverlay()
createLoadingOverlay(d) == [createFixedIframeContainer(d) EXCEPT !.overlays = @ + 1]

\* showLoadingOverlay() as to the elements: the overlay is created when
\* getElementById finds none.
OverlayShown(d) == IF d.overlays = 0 THEN createLoadingOverlay(d) ELSE d

\* const existing = getById('theme-preview'); if (existing) existing.remove()
ExistingRemoved(d) == IF d.iframes > 0 THEN [d EXCEPT !.iframes = @ - 1] ELSE d

Cur ==
  [overlayExists |-> overlayExists, overlayDisplay |-> overlayDisplay,
   previewDisabled |-> previewDisabled, createDisabled |-> createDisabled,
   navPending |-> navPending, onload |-> onload, docHolder |-> docHolder, doc |-> doc,
   hideQueue |-> hideQueue, inv |-> inv, overlayPointer |-> overlayPointer,
   blocker |-> blocker, dom |-> dom]

Commit(s) ==
  /\ overlayExists' = s.overlayExists
  /\ overlayDisplay' = s.overlayDisplay
  /\ previewDisabled' = s.previewDisabled
  /\ createDisabled' = s.createDisabled
  /\ navPending' = s.navPending
  /\ onload' = s.onload
  /\ docHolder' = s.docHolder
  /\ doc' = s.doc
  /\ hideQueue' = s.hideQueue
  /\ inv' = s.inv
  /\ overlayPointer' = s.overlayPointer
  /\ blocker' = s.blocker
  /\ dom' = s.dom

\* Variant of showLoadingOverlay that makes the overlay take pointer events again.
showLoadingOverlayInteractive(s) ==
  [s EXCEPT !.overlayExists = TRUE, !.overlayDisplay = "flex", !.overlayPointer = "auto",
            !.dom = OverlayShown(@)]

\* The overlay is created on first use; the opacity set on the next frame is not modelled.
showLoadingOverlay(s) ==
  [s EXCEPT !.overlayExists = TRUE, !.overlayDisplay = "flex", !.dom = OverlayShown(@)]

\* hideLoadingOverlay up to its await: starts the 2500 ms timer, unless there is no overlay.
hideLoadingOverlay(s, owner) ==
  IF ~s.overlayExists THEN s ELSE [s EXCEPT !.hideQueue = Append(@, owner)]

\* Variant of injectDisableInteractions that installs nothing.
injectNothing(s, access) == s

\* injectDisableInteractions(): an untagged script that stops clicks and
\* submissions is appended to the body of the iframe's document; where the
\* document cannot be read nothing is installed (the raise is caught).
injectDisableInteractions(s, access) ==
  IF access = "ok" THEN [s EXCEPT !.blocker = TRUE] ELSE s

\* Variant of appendToBody in which every invocation writes to the iframe's
\* current document, whichever document it obtained.
appendToCurrentBody(s, i, el) == [s EXCEPT !.doc.body = Append(@, el)]

\* body.appendChild(el) on the document invocation i obtained after its load
\* signal: it shows in the iframe only while that document is still the
\* current one; otherwise it lands in a document the iframe has left.
appendToBody(s, i, el) ==
  IF s.docHolder = i THEN [s EXCEPT !.doc.body = Append(@, el)] ELSE s

NoUrl == Url("", "", "")
Step(op, url) == [op |-> op, url |-> url]

NoResult == [known |-> FALSE, head |-> << >>, body |-> << >>]

\* updatePreview(rawThemes, themeName) up to its first await: the call itself.
UpdatePreviewCall(s, themeName, f) ==
  LET shown == showLoadingOverlay(s)
      rec == [pc |-> "called", theme |-> themeName, abort |-> "none",
              assets |-> NoAssets, formAt |-> f, pending |-> << >>, failed |-> {},
              steps |-> << >>, result |-> NoResult,
              alone |-> \A k \in 1..Len(s.inv) : s.inv[k].pc \in {"done", "rejected"},
              blockedAtClean |-> FALSE]
  IN [shown EXCEPT !.inv = Append(@, rec)]

\* Variant of UpdatePreviewStart without the themeData guard.
UpdatePreviewStartAnyTheme(s, i) ==
  LET off == [s EXCEPT !.previewDisabled = TRUE, !.createDisabled = TRUE]
  IN IF iframe # "attached"
     THEN [off EXCEPT !.inv[i].pc = "done", !.inv[i].abort = "noIframe"]
     ELSE [off EXCEPT !.onload = Resolve(i), !.navPending = TRUE, !.inv[i].pc = "awaitLoad"]

\* updatePreview from its first await to the await of the load signal.
UpdatePreviewStart(s, i) ==
  LET themeName == s.inv[i].theme
      off == [s EXCEPT !.previewDisabled = TRUE, !.createDisabled = TRUE]
  IN IF iframe # "attached"
     THEN [off EXCEPT !.inv[i].pc = "done", !.inv[i].abort = "noIframe"]
     ELSE IF themeName \notin Themes
     THEN LET hid == hideLoadingOverlay(off, i)
          IN [hid EXCEPT !.inv[i].abort = "noTheme",
                         !.inv[i].pc = IF off.overlayExists THEN "abortHide" ELSE "done"]
     ELSE [off EXCEPT !.onload = Resolve(i), !.navPending = TRUE, !.inv[i].pc = "awaitLoad"]

\* Variant of PromiseAll that does not wait for the promises.
NotAwaited(loadPromises) == TRUE

\* await Promise.all(loadPromises) goes on: none of the promises is pending
PromiseAll(loadPromises) == loadPromises = << >>

\* await Promise.all(loadPromises) has settled: hideLoadingOverlay, then (after
\* its timer) the buttons.
InjectionSettled(s, i) ==
  LET hid == hideLoadingOverlay(s, i)
      res == IF s.docHolder = i THEN [known |-> TRUE, head |-> s.doc.head, body |-> s.doc.body]
             ELSE NoResult
  IN IF s.overlayExists
     THEN [hid EXCEPT !.inv[i].pc = "hideWait", !.inv[i].result = res]
     ELSE [s EXCEPT !.inv[i].pc = "done", !.inv[i].result = res,
                    !.previewDisabled = FALSE, !.createDisabled = FALSE]

\* injectJSFilesAsync up to await Promise.all: the options script and the fetches.
injectJSFilesAsync(s, i, jsFiles, selectedTheme, jsOptions) ==
  LET optionsScript == generateOptionsScript(selectedTheme, jsOptions)
      uniqueJsFiles == Unique(jsFiles)
      withOpt == IF optionsScript.empty THEN s
                 ELSE [appendToBody(s, i, OptionsScript(optionsScript, selectedTheme))
                         EXCEPT !.inv[i].steps = Append(@, Step("options", NoUrl))]
  IN [withOpt EXCEPT !.inv[i].pending = uniqueJsFiles, !.inv[i].pc = "fetching"]

\* Variant of InjectAssets that starts the scripts before it adds the links.
InjectAssetsJsFirst(s, i, themeName, assets) ==
  LET js == injectJSFilesAsync(s, i, assets.jsFiles, themeName, assets.jsOptions)
  IN [js EXCEPT
        !.doc = injectCSSFiles(@, assets.cssFiles, themeName),
        !.inv[i].steps = @ \o [k \in 1..Len(assets.cssFiles) |-> Step("css", assets.cssFiles[k])]]

\* injectCSSFiles(doc, cssFiles, themeName), then injectJSFilesAsync up to its await.
InjectAssets(s, i, themeName, assets) ==
  LET css == [s EXCEPT
                !.doc = injectCSSFiles(@, assets.cssFiles, themeName),
                !.inv[i].steps = @ \o [k \in 1..Len(assets.cssFiles) |-> Step("css", assets.cssFiles[k])]]
  IN injectJSFilesAsync(css, i, assets.jsFiles, themeName, assets.jsOptions)

\* updatePreview after the load signal, d being what cleanOldAssets leaves of
\* the document: from the document lookup to await Promise.all.
\* access is what reading the iframe's document gives: "ok", "none" (a falsy
\* value) or "throws" (the property access raises, as it does cross-origin).
UpdatePreviewOnDocument(s, i, access, d) ==
  LET themeName == s.inv[i].theme
      loaded == [s EXCEPT !.onload = Resolved, !.inv[i].steps = Append(@, Step("load", NoUrl))]
  IN IF access = "throws"
     THEN [loaded EXCEPT !.inv[i].pc = "rejected"]
     ELSE IF access = "none"
     THEN LET hid == hideLoadingOverlay(loaded, i)
          IN [hid EXCEPT !.inv[i].abort = "noDoc",
                         !.inv[i].pc = IF s.overlayExists THEN "abortHide" ELSE "done"]
     ELSE
       LET cleaned == [loaded EXCEPT !.doc = d, !.docHolder = i,
                                     !.inv[i].blockedAtClean = s.blocker,
                                     !.inv[i].steps = Append(@, Step("clean", NoUrl))]
           assets == collectThemeAssets(rawThemes[themeName], themeName, form)
           noted == [cleaned EXCEPT !.inv[i].assets = assets, !.inv[i].formAt = form]
           js == InjectAssets(noted, i, themeName, assets)
       IN IF PromiseAll(js.inv[i].pending) THEN InjectionSettled(js, i) ELSE js

\* Variant of UpdatePreviewLoaded that injects on top of what the invocation
\* before it left, as if the iframe were neither reloaded nor cleaned.
UpdatePreviewLoadedOnPrevious(s, i, access) ==
  UpdatePreviewOnDocument(s, i, access,
    IF i > 1 /\ s.inv[i - 1].result.known
    THEN [head |-> s.inv[i - 1].result.head, body |-> s.inv[i - 1].result.body]
    ELSE cleanOldAssets(s.doc))

\* updatePreview after the load signal.
UpdatePreviewLoaded(s, i, access) ==
  UpdatePreviewOnDocument(s, i, access, cleanOldAssets(s.doc))

\* The whole of one updatePreview call made from a handler that does nothing after it.
updatePreview(s, themeName) ==
  LET called == UpdatePreviewCall(s, themeName, form)
  IN UpdatePreviewStart(called, Len(called.inv))

----------------------------------------------------------------------------
(* DeviceLayoutEngine *)

\* Variant of ShowOnly that shows the active container beside the others.
ShowToo(deviceKey, display) ==
  [d \in DeviceKeys |-> IF d = deviceKey THEN "block" ELSE display[d]]

\* Every container of DEVICE_CONFIG is hidden, then the active one is shown.
ShowOnly(deviceKey, display) ==
  [d \in DeviceKeys |-> IF d = deviceKey THEN "block" ELSE "none"]

\* Variant of ReturnsAfterCreate in which the call goes on after createIframe.
GoesOnAfterCreate(ifr) == FALSE

\* if (!iframe) { createIframe(); return; }
ReturnsAfterCreate(ifr) == ifr = "null"

\* createIframe makes the iframe start loading the preview endpoint; with an
\* iframe already there switchToDevice shows the overlay, reloads it and
\* replaces iframe.onload.
\* switchToDevice(deviceKey), called while the module variable iframe is ifr.
switchToDevice(deviceKey, ifr, d) ==
  /\ lastKey' = deviceKey
  /\ IF ~HasConfig(deviceKey)
     THEN /\ iframe' = ifr
          /\ dom' = d
          /\ UNCHANGED << currentDevice, deviceDisplay, overlayExists, overlayDisplay,
                          navPending, onload >>
     ELSE
       /\ currentDevice' = deviceKey
       /\ deviceDisplay' = ShowOnly(deviceKey, deviceDisplay)
       /\ iframe' = (IF ifr = "null" THEN "attached" ELSE ifr)
       /\ navPending' = (ifr # "detached")
       /\ IF ReturnsAfterCreate(ifr)
          THEN /\ dom' = createIframe(d, ifr)
               /\ UNCHANGED << overlayExists, overlayDisplay, onload >>
          ELSE /\ dom' = OverlayShown(d)
               /\ overlayExists' = TRUE
               /\ overlayDisplay' = "flex"
               /\ onload' = SwitchHandler

\* switchToDevice(deviceKey) changes which screen element is laid out, and the
\* ResizeObserver of setupAutoReposition, where the browser has one, reports it.
Observed(deviceKey) ==
  /\ resizeObserver
  /\ page # "loading"
  /\ HasConfig(deviceKey)
  /\ ShowOnly(deviceKey, deviceDisplay) # deviceDisplay

\* updateThemeOptions gets as far as its setTimeout(positionIframeGlobal, 150)
SchedulesReposition(selectedTheme) == selectedTheme # NoTheme /\ selectedTheme \in Themes

\* A main toggle that is a checkbox changes between two states of the form.
ToggleChanged(f, g) ==
  \E id \in DOMAIN f : f[id].type = "checkbox" /\ f[id] # g[id]

\* updateThemeOptions(rawThemes, themeSelect, forcedThemeName): the options
\* group left displayed, given the one displayed before.
updateThemeOptions(selectedTheme, shown) ==
  IF selectedTheme = NoTheme \/ selectedTheme \notin Themes THEN shown ELSE selectedTheme

----------------------------------------------------------------------------
(* Initial state: the scripts are evaluated, DOMContentLoaded has not fired *)

Init ==
  /\ page = "loading"
  /\ iframe = "null"
  /\ currentDevice = "ordi"
  /\ isInitialized = FALSE
  /\ initialPreviewDone = FALSE
  /\ deviceDisplay = [d \in DeviceKeys |-> "unset"]
  /\ overlayExists = FALSE
  /\ overlayDisplay = "unset"
  /\ overlayPointer = "unset"
  /\ previewDisabled = FALSE
  /\ createDisabled = FALSE
  /\ editDisabled = FALSE
  /\ navPending = FALSE
  /\ onload = Unset
  /\ rafSwitch = FALSE
  /\ docHolder = 0
  /\ blocker = FALSE
  /\ dom = NoElement
  /\ doc = FreshDocument
  /\ hideQueue = << >>
  /\ inv = << >>
  /\ form \in FormStates
  /\ themeSelectValue \in Themes
  /\ visibleGroup = "none"
  /\ editing = "none"
  /\ htu = "idle"
  /\ submit = "idle"
  /\ enableTimers = 0
  /\ iframeStyle = NoStyle
  /\ overlayStyle = NoStyle
  /\ posTimer = FALSE
  /\ resizeObserver \in BOOLEAN
  /\ lastKey = "none"
  /\ screens = DeviceKeys
  /\ resizing = FALSE
  /\ resizeFrame = FALSE
  /\ frames = 0
  /\ isProcessingThemeAction = FALSE
  /\ del = << >>
  /\ buttonsDisabled = FALSE
  /\ cards = Themes
  /\ nOps = 0

Session == << isInitialized, initialPreviewDone, rafSwitch >>
Resizer == << resizing, resizeFrame, frames >>
Grid == << isProcessingThemeAction, del, buttonsDisabled, cards >>
Devices == << iframe, currentDevice, deviceDisplay, lastKey, resizeObserver, screens, Resizer, Grid >>
Placement == << iframeStyle, overlayStyle >>
Styles == [iframe |-> iframeStyle, overlay |-> overlayStyle]

\* The styles an action leaves on the iframe and on the overlay
Place(styles) ==
  /\ iframeStyle' = styles.iframe
  /\ overlayStyle' = styles.overlay
Admin == << form, themeSelectValue, visibleGroup, editing, htu, submit, enableTimers, editDisabled >>
Preview == << overlayExists, overlayDisplay, previewDisabled, createDisabled,
              navPending, onload, docHolder, doc, blocker, dom, hideQueue, inv >>

----------------------------------------------------------------------------
(* Page life cycle *)

\* DOMContentLoaded of the admin page: ThemeManager.init
DOMContentLoaded ==
  /\ page = "loading"
  /\ page' = "interactive"
  /\ previewDisabled' = TRUE
  /\ createDisabled' = TRUE
  /\ switchToDevice(currentDevice, "attached", createIframe(ExistingRemoved(dom), iframe))
  /\ visibleGroup' = updateThemeOptions(themeSelectValue, visibleGroup)
  /\ posTimer' = (posTimer \/ SchedulesReposition(themeSelectValue) \/ resizeObserver)
  /\ UNCHANGED << Placement, resizeObserver, screens, Resizer, Grid, nOps, Session, overlayPointer, editDisabled, docHolder, doc, blocker,
                  hideQueue, inv, form, themeSelectValue, editing, htu, submit, enableTimers >>

\* load of the admin window
WindowLoad ==
  /\ page = "interactive"
  /\ isInitialized
  /\ page' = "complete"
  /\ createDisabled' = FALSE
  /\ previewDisabled' = FALSE
  /\ UNCHANGED << Placement, posTimer, nOps, Session, Devices, Admin, overlayPointer, overlayExists,
                  overlayDisplay, navPending, onload, docHolder, doc, blocker, dom, hideQueue, inv >>

----------------------------------------------------------------------------
(* The iframe and the timers *)

\* Variant of SchedulesSwitch in which every load signal schedules the switch.
SchedulesSwitchAlways(done) == TRUE

\* if (!initialPreviewDone) of the load listener
SchedulesSwitch(done) == ~done

DocAccess == {"ok", "none", "throws"}

\* The iframe's load event: the listener createIframe added, then iframe.onload.
Load ==
  /\ navPending
  /\ \E access \in DocAccess :
       LET arrived  == [Cur EXCEPT !.navPending = FALSE, !.docHolder = 0, !.doc = FreshDocument,
                                   !.blocker = FALSE]
           listened == hideLoadingOverlay(
                         injectDisableInteractions(showLoadingOverlay(arrived), access), 0)
           handled  == IF onload.kind = "switch"
                       THEN hideLoadingOverlay(injectDisableInteractions(listened, access), 0)
                       ELSE IF onload.kind = "resolve" /\ inv[onload.of].pc = "awaitLoad"
                       THEN UpdatePreviewLoaded(listened, onload.of, access)
                       ELSE listened
       IN Commit(handled)
  /\ isInitialized' = TRUE
  /\ initialPreviewDone' = TRUE
  /\ rafSwitch' = (rafSwitch \/ SchedulesSwitch(initialPreviewDone))
  /\ Place(IF onload.kind = "switch"
           THEN positionIframe(iframe, TRUE, TRUE, currentDevice, screens, Styles)
           ELSE Styles)
  /\ UNCHANGED << posTimer, nOps, Devices, Admin, page >>

\* The two nested animation frames of the first load: switchToDevice(currentDevice)
RafSwitch ==
  /\ rafSwitch
  /\ rafSwitch' = FALSE
  /\ switchToDevice(currentDevice, iframe, dom)
  /\ posTimer' = (posTimer \/ Observed(currentDevice))
  /\ UNCHANGED << Placement, resizeObserver, screens, Resizer, Grid, nOps, Admin, page, isInitialized, initialPreviewDone, overlayPointer,
                  previewDisabled, createDisabled, docHolder, doc, blocker, hideQueue, inv >>

\* A timer the form handlers set fires: positionIframe (updateThemeOptions,
\* toggleConfig and the change listeners of setupAutoReposition)
PosTimer ==
  /\ posTimer
  /\ posTimer' = FALSE
  /\ Place(positionIframe(iframe, isInitialized, overlayExists, currentDevice, screens, Styles))
  /\ UNCHANGED << nOps, Session, Devices, Admin, Preview, page, overlayPointer >>

\* A watcher of setupAutoReposition calls positionIframe: the window is
\* resized or scrolled, or an observer reports.
Reposition ==
  /\ page # "loading"
  /\ Place(positionIframe(iframe, isInitialized, overlayExists, currentDevice, screens, Styles))
  /\ UNCHANGED << nOps, Session, Devices, Admin, Preview, page, overlayPointer, posTimer >>

\* The oldest 2500 ms timer of hideLoadingOverlay fires; the updatePreview
\* awaiting it, if any, goes on.
HideTimer ==
  /\ hideQueue # << >>
  /\ LET owner == Head(hideQueue) IN
     /\ hideQueue' = Tail(hideQueue)
     /\ overlayDisplay' = "none"
     /\ overlayPointer' = "none"
     /\ IF owner # 0 /\ inv[owner].pc = "hideWait"
        THEN /\ inv' = [inv EXCEPT ![owner].pc = "done"]
             /\ previewDisabled' = FALSE
             /\ createDisabled' = FALSE
        ELSE /\ inv' = IF owner # 0 THEN [inv EXCEPT ![owner].pc = "done"] ELSE inv
             /\ UNCHANGED << previewDisabled, createDisabled >>
  /\ UNCHANGED << Placement, posTimer, nOps, Session, Devices, Admin, page, overlayExists,
                  navPending, onload, docHolder, doc, blocker, dom >>

\* Variant of fetchCatch without the catch: the failure rejects Promise.all
\* and with it the updatePreview that awaits it.
fetchRethrow(s, i, src) ==
  [s EXCEPT !.inv[i].failed = @ \cup {src}, !.inv[i].pending = << >>, !.inv[i].pc = "rejected"]

\* .catch(err => console.error(...)): the failure of one fetch is logged
fetchCatch(s, i, src) == [s EXCEPT !.inv[i].failed = @ \cup {src}]

\* .then(code => {...}): the inline script is appended and, the document
\* being loaded (readyState 'complete'), DOMContentLoaded is dispatched on it
fetchThen(s, i, src) ==
  [appendToBody(s, i, Script(src, s.inv[i].theme))
     EXCEPT !.inv[i].steps = @ \o << Step("js", src), Step("signal", src) >>]

\* The k-th outstanding fetch of injectJSFilesAsync settles: the script is
\* appended to the document the invocation holds, or the failure is logged.
FetchDone(i, k, ok) ==
  /\ inv[i].pc = "fetching"
  /\ k \in 1..Len(inv[i].pending)
  /\ LET src      == inv[i].pending[k]
         appended == IF ok THEN fetchThen(Cur, i, src) ELSE fetchCatch(Cur, i, src)
         settled  == IF appended.inv[i].pc = "fetching"
                     THEN [appended EXCEPT !.inv[i].pending = Without(@, k)]
                     ELSE appended
     IN Commit(IF settled.inv[i].pc = "fetching" /\ PromiseAll(settled.inv[i].pending)
               THEN InjectionSettled(settled, i) ELSE settled)
  /\ UNCHANGED << Placement, posTimer, nOps, Session, Devices, Admin, page >>

----------------------------------------------------------------------------
(* Handlers of the admin page that reach the preview *)

\* Variant of PreviewClick in which updatePreview writes the saved values back
\* into the inputs it reads.
PreviewClickRestoring ==
  /\ page = "complete"
  /\ ~previewDisabled
  /\ visibleGroup # "none"
  /\ nOps < MaxOps
  /\ nOps' = nOps + 1
  /\ form' = SavedForm
  /\ Commit(updatePreview(Cur, visibleGroup))
  /\ UNCHANGED << Placement, posTimer, Session, Devices, page, themeSelectValue, visibleGroup,
                  editing, htu, submit, enableTimers, editDisabled >>

\* click on #preview-button (ThemeManager.setupPreviewButton)
PreviewClick ==
  /\ page = "complete"
  /\ ~previewDisabled
  /\ visibleGroup # "none"
  /\ nOps < MaxOps
  /\ nOps' = nOps + 1
  /\ Commit(updatePreview(Cur, visibleGroup))
  /\ UNCHANGED << Placement, posTimer, Session, Devices, Admin, page >>

\* click on a theme card's edit button: showThemeEditor(themeName, ...)
ShowThemeEditor(themeName) ==
  /\ page = "complete"
  /\ nOps < MaxOps
  /\ nOps' = nOps + 1
  /\ editing' = themeName
  /\ visibleGroup' = updateThemeOptions(themeName, visibleGroup)
  /\ Commit(updatePreview(Cur, themeName))
  /\ posTimer' = (posTimer \/ SchedulesReposition(themeName))
  /\ UNCHANGED << Placement, Session, Devices, page, form,
                  themeSelectValue, htu, submit, enableTimers, editDisabled >>

\* click on #cancel-edit-btn: exitThemeEditor(rawThemes, elements)
ExitThemeEditor ==
  /\ editing # "none"
  /\ ~editDisabled
  /\ nOps < MaxOps
  /\ nOps' = nOps + 1
  /\ visibleGroup' = updateThemeOptions(themeSelectValue, visibleGroup)
  /\ Commit(updatePreview(Cur, themeSelectValue))
  /\ editing' = "none"
  /\ posTimer' = (posTimer \/ SchedulesReposition(themeSelectValue))
  /\ UNCHANGED << Placement, Session, Devices, page, form,
                  themeSelectValue, htu, submit, enableTimers, editDisabled >>

\* click on #reset-button in the editor: resetThemeOptions(themeName, state)
\* puts the saved values (state.allThemes) back into the inputs.
ResetThemeOptions ==
  /\ editing # "none"
  /\ ~editDisabled
  /\ nOps < MaxOps
  /\ nOps' = nOps + 1
  /\ form' = SavedForm
  /\ Commit(updatePreview(Cur, editing))
  /\ posTimer' = TRUE
  /\ UNCHANGED << Placement, Session, Devices, page, themeSelectValue,
                  visibleGroup, editing, htu, submit, enableTimers, editDisabled >>

\* The user changes inputs of the form.
UserInput(f) ==
  /\ page = "complete"
  /\ f # form
  /\ nOps < MaxOps
  /\ nOps' = nOps + 1
  /\ form' = f
  /\ posTimer' = (posTimer \/ ToggleChanged(form, f))
  /\ UNCHANGED << Placement, Session, Devices, Preview, page, overlayPointer, themeSelectValue,
                  visibleGroup, editing, htu, submit, enableTimers, editDisabled >>

\* change of #theme-select: updateThemeOptions(rawThemes, themeSelect)
SelectTheme(v) ==
  /\ page = "complete"
  /\ editing = "none"
  /\ v # themeSelectValue
  /\ nOps < MaxOps
  /\ nOps' = nOps + 1
  /\ themeSelectValue' = v
  /\ visibleGroup' = updateThemeOptions(v, visibleGroup)
  /\ posTimer' = TRUE
  /\ UNCHANGED << Placement, Session, Devices, Preview, page, overlayPointer, form,
                  editing, htu, submit, enableTimers, editDisabled >>

\* change of a device radio (initRadioListeners)
SwitchDevice(deviceKey) ==
  /\ page # "loading"
  /\ nOps < MaxOps
  /\ nOps' = nOps + 1
  /\ switchToDevice(deviceKey, iframe, dom)
  /\ posTimer' = (posTimer \/ Observed(deviceKey))
  /\ UNCHANGED << Placement, resizeObserver, screens, Resizer, Grid, Session, Admin, page, overlayPointer,
                  previewDisabled, createDisabled, docHolder, doc, blocker, hideQueue, inv >>

\* click on #update-button: ThemeManager.handleThemeUpdate up to await updateTheme
HandleThemeUpdate ==
  /\ editing # "none"
  /\ ~editDisabled
  /\ htu = "idle"
  /\ nOps < MaxOps
  /\ nOps' = nOps + 1
  /\ IF visibleGroup = "none"
     THEN /\ previewDisabled' = FALSE
          /\ UNCHANGED << editDisabled, htu >>
     ELSE /\ previewDisabled' = TRUE
          /\ editDisabled' = TRUE
          /\ htu' = "updateTheme"
  /\ UNCHANGED << Placement, posTimer, Session, Devices, page, overlayPointer, overlayExists,
                  overlayDisplay, createDisabled, navPending, onload, docHolder, doc, blocker, dom, hideQueue,
                  inv, form, themeSelectValue, visibleGroup, editing, submit, enableTimers >>

\* updateTheme's PUT settles: on failure handleThemeUpdate ends through its
\* finally block, on success it awaits refreshThemesGridFromAPI.
UpdateThemeSettled(success) ==
  /\ htu = "updateTheme"
  /\ IF success
     THEN /\ htu' = "refresh"
          /\ UNCHANGED << previewDisabled, editDisabled >>
     ELSE /\ htu' = "idle"
          /\ previewDisabled' = FALSE
          /\ editDisabled' = FALSE
  /\ UNCHANGED << Placement, posTimer, nOps, Session, Devices, page, overlayPointer, overlayExists,
                  overlayDisplay, createDisabled, navPending, onload, docHolder, doc, blocker, dom, hideQueue,
                  inv, form, themeSelectValue, visibleGroup, editing, submit, enableTimers >>

\* refreshThemesGridFromAPI settles: renderThemesGrid writes the cards anew,
\* with enabled buttons; refreshThemeSelect leaves v selected,
\* exitThemeEditor and handleThemeUpdate each call updatePreview, the finally
\* block enables the buttons, and then the two calls go on past their first await.
ThemesRefreshed(v) ==
  /\ htu = "refresh"
  /\ htu' = "idle"
  /\ themeSelectValue' = v
  /\ visibleGroup' = updateThemeOptions(v, visibleGroup)
  /\ editing' = "none"
  /\ editDisabled' = FALSE
  /\ LET first   == UpdatePreviewCall(Cur, v, form)
         second  == UpdatePreviewCall(first, v, form)
         finally == [second EXCEPT !.previewDisabled = FALSE]
         m       == Len(second.inv)
     IN Commit(UpdatePreviewStart(UpdatePreviewStart(finally, m - 1), m))
  /\ posTimer' = (posTimer \/ SchedulesReposition(v))
  /\ buttonsDisabled' = FALSE
  /\ UNCHANGED << Placement, nOps, Session, iframe, currentDevice, deviceDisplay, lastKey,
                  resizeObserver, screens, Resizer, isProcessingThemeAction, del, cards,
                  page, form, submit, enableTimers >>

\* submit of #theme-form: submitThemeForm up to await fetch
SubmitThemeForm ==
  /\ page = "complete"
  /\ editing = "none"
  /\ ~createDisabled
  /\ submit = "idle"
  /\ nOps < MaxOps
  /\ nOps' = nOps + 1
  /\ submit' = "post"
  /\ previewDisabled' = TRUE
  /\ createDisabled' = TRUE
  /\ UNCHANGED << Placement, posTimer, Session, Devices, page, overlayPointer, overlayExists,
                  overlayDisplay, navPending, onload, docHolder, doc, blocker, dom, hideQueue, inv, form,
                  themeSelectValue, visibleGroup, editing, htu, enableTimers, editDisabled >>

\* The POST settles: with a response the iframe's window is reloaded; either
\* way a 5000 ms timer is set to enable the buttons again.
SubmitSettled(answered) ==
  /\ submit = "post"
  /\ submit' = "idle"
  /\ enableTimers' = enableTimers + 1
  /\ navPending' = (navPending \/ (answered /\ iframe # "null"))
  /\ UNCHANGED << Placement, posTimer, nOps, Session, Devices, page, overlayPointer, overlayExists,
                  overlayDisplay, previewDisabled, createDisabled, onload, docHolder, doc, blocker, dom,
                  hideQueue, inv, form, themeSelectValue, visibleGroup, editing, htu,
                  editDisabled >>

\* A 5000 ms timer of submitThemeForm fires.
EnableTimer ==
  /\ enableTimers > 0
  /\ enableTimers' = enableTimers - 1
  /\ previewDisabled' = FALSE
  /\ createDisabled' = FALSE
  /\ UNCHANGED << Placement, posTimer, nOps, Session, Devices, page, overlayPointer, overlayExists,
                  overlayDisplay, navPending, onload, docHolder, doc, blocker, dom, hideQueue, inv, form,
                  themeSelectValue, visibleGroup, editing, htu, submit, editDisabled >>

----------------------------------------------------------------------------

Next ==
  \/ DOMContentLoaded
  \/ WindowLoad
  \/ Load
  \/ RafSwitch
  \/ HideTimer
  \/ PosTimer
  \/ Reposition
  \/ \E i \in 1..Len(inv) : \E k \in 1..Len(inv[i].pending) : \E ok \in BOOLEAN : FetchDone(i, k, ok)
  \/ PreviewClick
  \/ \E t \in Themes : ShowThemeEditor(t)
  \/ ExitThemeEditor
  \/ ResetThemeOptions
  \/ \E f \in FormStates : UserInput(f)
  \/ \E v \in Themes : SelectTheme(v)
  \/ \E d \in RadioKeys : SwitchDevice(d)
  \/ HandleThemeUpdate
  \/ \E ok \in BOOLEAN : UpdateThemeSettled(ok)
  \/ \E v \in Themes \cup {NoTheme} : ThemesRefreshed(v)
  \/ SubmitThemeForm
  \/ \E a \in BOOLEAN : SubmitSettled(a)
  \/ EnableTimer

Spec == Init /\ [][Next]_vars

----------------------------------------------------------------------------
(* Properties *)

Invocations == 1..Len(inv)

\* The promise of invocation i is settled.
Settled(i) == inv[i].pc \in {"done", "rejected"}

\* Invocation i is between its call and the settling of its promise.
InFlight(i) == ~Settled(i)

\* C2: from the moment updatePreview has shown the overlay until its JS
\* injection has settled, the overlay is displayed.
C2_OverlayStaysVisible ==
  \A i \in Invocations :
    inv[i].pc \in {"awaitLoad", "fetching"} => overlayDisplay = "flex"

\* C3: at most one updatePreview invocation is unsettled at any time.
C3_SingleFlight ==
  Cardinality({i \in Invocations : InFlight(i)}) <= 1

\* C4: from the point updatePreview has disabled #preview-button and
\* #create-button until that invocation settles, both stay disabled.
C4_ButtonsStayDisabled ==
  \A i \in Invocations :
    InFlight(i) => previewDisabled /\ createDisabled

\* No load event, timer, animation frame or network completion is still to
\* come: the page stays as it is until the user acts again.
Quiescent ==
  /\ page = "complete"
  /\ ~navPending
  /\ ~rafSwitch
  /\ hideQueue = << >>
  /\ enableTimers = 0
  /\ htu = "idle"
  /\ submit = "idle"
  /\ \A i \in Invocations : inv[i].pending = << >>

\* C5: every updatePreview invocation eventually resolves: once every load
\* event, fetch and timer that was due has come, no invocation is left
\* waiting.
C5_QuiescentMeansResolved ==
  Quiescent => \A i \in Invocations : Settled(i)

\* C6: when an updatePreview that aborted early ends, nothing else of the
\* page being under way, the overlay is hidden and #preview-button and
\* #create-button are enabled.
C6_AbortRestoresButtons ==
  [][ \A i \in 1..Len(inv') :
        ( /\ inv'[i].pc = "done"
          /\ inv'[i].abort # "none"
          /\ (i \in Invocations => inv[i].pc # "done")
          /\ \A j \in 1..Len(inv') : inv'[j].pc \in {"done", "rejected"}
          /\ htu' = "idle" /\ submit' = "idle" /\ enableTimers' = 0 )
        => /\ overlayDisplay' = "none"
           /\ ~previewDisabled'
           /\ ~createDisabled' ]_vars

\* C7: the promise of updatePreview is never rejected, whatever reading the
\* iframe's document gives.
C7_NeverRejects ==
  \A i \in Invocations : inv[i].pc # "rejected"

\* Place of a step in the order load, clean, CSS links, scripts
Rank(op) ==
  CASE op = "load" -> 1
    [] op = "clean" -> 2
    [] op = "css" -> 3
    [] OTHER -> 4

Ops(i) == {inv[i].steps[k].op : k \in 1..Len(inv[i].steps)}

\* C1: within one updatePreview invocation the load signal comes before
\* cleanOldAssets, which comes before every CSS link injection, which comes
\* before every script injection (options script and fetched scripts).
C1_StepsInOrder ==
  \A i \in Invocations :
    LET steps == inv[i].steps IN
    /\ \A k \in 1..Len(steps) : \A l \in 1..Len(steps) :
         k < l => /\ Rank(steps[k].op) <= Rank(steps[l].op)
                  /\ Rank(steps[l].op) <= 2 => Rank(steps[k].op) < Rank(steps[l].op)
    /\ Len(steps) >= 1 => steps[1].op = "load"
    /\ Len(steps) >= 2 => steps[2].op = "clean"

\* An invocation has injected a link, the options script and a fetched script.
C1_AllStepsTaken ==
  \E i \in Invocations : {"load", "clean", "css", "options", "js"} \subseteq Ops(i)

\* Invocation i has completed its injection with every fetch succeeding, and
\* the iframe still shows the document it injected into.
CompletedOnCurrent(i) ==
  /\ inv[i].pc \in {"hideWait", "done"}
  /\ inv[i].abort = "none"
  /\ inv[i].failed = {}
  /\ docHolder = i

\* The scripts of body that were fetched from url
ScriptsOf(body, url) == {k \in 1..Len(body) : body[k].src = url}

\* C8: after updatePreview(rawThemes, T) has completed with every fetch
\* succeeding and no other reload since, the tagged elements of the iframe's
\* document are one link per collected CSS URL, one script per distinct
\* collected JS URL, and the options script iff jsOptions has a key, all
\* tagged T.
C8_ExactlyTheCollectedAssets ==
  \A i \in Invocations :
    CompletedOnCurrent(i) =>
      LET a == inv[i].assets
          T == inv[i].theme
          withOptions == DOMAIN a.jsOptions # {}
          options == OptionsScript(generateOptionsScript(T, a.jsOptions), T)
      IN /\ doc.head = [k \in 1..Len(a.cssFiles) |-> Link(a.cssFiles[k], T)]
         /\ Len(doc.body) = Cardinality(Range(a.jsFiles)) + (IF withOptions THEN 1 ELSE 0)
         /\ \A url \in Range(a.jsFiles) :
              \E k \in 1..Len(doc.body) :
                /\ doc.body[k] = Script(url, T)
                /\ ScriptsOf(doc.body, url) = {k}
         /\ withOptions <=> (\E k \in 1..Len(doc.body) : doc.body[k] = options)
         /\ \A k \in 1..Len(doc.body) : doc.body[k].theme = T
         /\ a = collectThemeAssets(rawThemes[T], T, inv[i].formAt)

\* An invocation has completed on the current document for a theme whose two
\* active elements name the same JS file.
C8_CompletedWithSharedScript ==
  \E i \in Invocations :
    /\ CompletedOnCurrent(i)
    /\ Len(inv[i].assets.jsFiles) > Cardinality(Range(inv[i].assets.jsFiles))
    /\ DOMAIN inv[i].assets.jsOptions # {}
    /\ doc.head # << >>

\* The themes the elements of the iframe's current document are tagged with
TaggedThemes ==
  {doc.head[k].theme : k \in 1..Len(doc.head)} \cup {doc.body[k].theme : k \in 1..Len(doc.body)}

\* C9: the iframe's current document never holds elements tagged with two
\* different themes, and what it holds is tagged with the theme of the last
\* invocation that injected into it.
C9_OneThemeInDocument ==
  /\ Cardinality(TaggedThemes) <= 1
  /\ docHolder = 0 => TaggedThemes = {}
  /\ docHolder # 0 => TaggedThemes \subseteq {inv[docHolder].theme}

\* An invocation for one theme still awaits a fetch while the iframe shows
\* the document a later invocation for another theme has injected into.
C9_OverlapOfTwoThemes ==
  \E i \in Invocations : \E j \in Invocations :
    /\ i < j
    /\ inv[i].theme # inv[j].theme
    /\ inv[i].pc = "fetching"
    /\ docHolder = j
    /\ TaggedThemes = {inv[j].theme}

\* Invocation j was called when every earlier one had settled, for the theme
\* and with the form inputs of the invocation before it, and both completed
\* with every fetch succeeding.
RanTwice(j) ==
  /\ j > 1
  /\ inv[j].alone
  /\ inv[j].theme = inv[j - 1].theme
  /\ inv[j].formAt = inv[j - 1].formAt
  /\ inv[j].result.known /\ inv[j - 1].result.known
  /\ inv[j].failed = {} /\ inv[j - 1].failed = {}

\* C10: running updatePreview for a theme to completion twice in sequence
\* with unchanged inputs leaves the tagged elements that running it once left.
C10_Idempotent ==
  \A j \in Invocations :
    RanTwice(j) =>
      /\ inv[j].result.head = inv[j - 1].result.head
      /\ inv[j].result.body = inv[j - 1].result.body

\* updatePreview has run twice in sequence and left a link and a script.
C10_RanTwiceWithAssets ==
  \E j \in Invocations :
    /\ RanTwice(j)
    /\ inv[j].result.head # << >>
    /\ inv[j].result.body # << >>

----------------------------------------------------------------------------
(* collectThemeAssets on its own: theme configurations and form inputs     *)
(* drawn from sets that cover its branches, and one call.                   *)

Element(name, setting, file, type, extras) ==
  [name |-> name, setting |-> setting, file |-> file, type |-> type, extra_options |-> extras]

Option(key, type, css, js) == [key |-> key, type |-> type, css |-> css, js |-> js]

\* Theme configurations: the element types, an element without type, an
\* element without file, normal and ignore extra options.
TestThemes ==
  [ t_types  |-> [elements |-> << Element("a", "toggle_a", "a", "js", << >>),
                                  Element("b", "toggle_b", "b", "css", << >>) >>],
    t_both   |-> [elements |-> << Element("a", "toggle_a", "a", "both", << >>),
                                  Element("b", "toggle_b", "b", "", << >>) >>],
    t_nofile |-> [elements |-> << Element("a", "toggle_a", "", "both",
                                          << Option("opt_a", "normal", "x.css", "x.js") >>),
                                  Element("b", "toggle_b", "b", "js", << >>) >>],
    t_extras |-> [elements |-> << Element("a", "toggle_a", "a", "css",
                                          << Option("opt_a", "normal", "x.css", "x.js"),
                                             Option("api_namespace", "ignore", "", "") >>) >>],
    t_ignore |-> [elements |-> << Element("a", "toggle_a", "a", "both",
                                          << Option("api_namespace", "ignore", "", ""),
                                             Option("no_such_global", "ignore", "", "") >>),
                                  Element("b", "toggle_b", "b", "js",
                                          << Option("opt_a", "normal", "", "") >>) >>] ]

TestInputIds == {"toggle_a", "toggle_b", "opt_a"}

TestInputs == {Checkbox(TRUE), Checkbox(FALSE), Field(""), Field("v")}

\* Every form that has some of the three inputs, each a checkbox or a field
TestForms == UNION {[D -> TestInputs] : D \in SUBSET TestInputIds}

\* The page with one updatePreview whose reload has completed, its document
\* obtained and cleaned: f the form inputs, call the invocation.
AfterLoadOn(f, call, document) ==
  /\ page = "complete"
  /\ iframe = "attached"
  /\ currentDevice = "ordi"
  /\ isInitialized = TRUE
  /\ initialPreviewDone = TRUE
  /\ deviceDisplay = [d \in DeviceKeys |-> IF d = "ordi" THEN "block" ELSE "none"]
  /\ overlayExists = TRUE
  /\ overlayDisplay = "flex"
  /\ overlayPointer = "unset"
  /\ previewDisabled = TRUE
  /\ createDisabled = TRUE
  /\ editDisabled = FALSE
  /\ navPending = FALSE
  /\ onload = Resolved
  /\ rafSwitch = FALSE
  /\ docHolder = 1
  /\ blocker = TRUE
  /\ dom = [iframes |-> 1, containers |-> 1, overlays |-> 1]
  /\ doc = document
  /\ hideQueue = << >>
  /\ form = f
  /\ inv = << call >>
  /\ themeSelectValue = NoTheme
  /\ visibleGroup = "none"
  /\ editing = "none"
  /\ htu = "idle"
  /\ submit = "idle"
  /\ enableTimers = 0
  /\ iframeStyle = Layout("ordi")
  /\ overlayStyle = Layout("ordi")
  /\ posTimer = FALSE
  /\ resizeObserver = TRUE
  /\ screens = DeviceKeys
  /\ resizing = FALSE
  /\ resizeFrame = FALSE
  /\ frames = 0
  /\ isProcessingThemeAction = FALSE
  /\ del = << >>
  /\ buttonsDisabled = FALSE
  /\ cards = Themes
  /\ lastKey = "ordi"
  /\ nOps = 0

\* The page when an updatePreview has got its load signal over a fresh document
AfterLoad(f, call) == AfterLoadOn(f, call, FreshDocument)

\* The invocation of updatePreview at pc, for theme t, with assets collected from f
Invocation(pc, t, assets, f) ==
  [pc |-> pc, theme |-> t, abort |-> "none", assets |-> assets,
   formAt |-> f, pending |-> << >>, failed |-> {},
   steps |-> << Step("load", NoUrl), Step("clean", NoUrl) >>,
   result |-> NoResult, alone |-> TRUE, blockedAtClean |-> TRUE]

\* An updatePreview that is about to call collectThemeAssets for a theme
CollectInit ==
  \E f \in TestForms : \E t \in DOMAIN TestThemes :
    AfterLoad(f, Invocation("collect", t, NoAssets, f))

\* const { cssFiles, jsFiles, jsOptions } = collectThemeAssets(themeData, themeName)
Collect ==
  /\ inv # << >>
  /\ inv[1].pc = "collect"
  /\ inv' = [inv EXCEPT ![1].pc = "collected",
                        ![1].assets = collectThemeAssets(TestThemes[inv[1].theme], inv[1].theme, form)]
  /\ UNCHANGED << Placement, posTimer, nOps, Session, Devices, Admin, page, overlayPointer, overlayExists,
                  overlayDisplay, previewDisabled, createDisabled, navPending, onload,
                  docHolder, doc, blocker, dom, hideQueue >>

CollectNext == Collect

CollectSpec == CollectInit /\ [][CollectNext]_vars

\* The call of collectThemeAssets has returned.
Collected == inv # << >> /\ inv[1].pc = "collected"

CollectedTheme == inv[1].theme
CollectedElements == TestThemes[inv[1].theme].elements
Out == inv[1].assets

\* The form has a checkbox with this id, checked
Checked(id) == id \in DOMAIN form /\ form[id].type = "checkbox" /\ form[id].checked

\* The form has an input with this id that is no checkbox and has no value
EmptyField(id) == id \in DOMAIN form /\ form[id].type # "checkbox" /\ form[id].value = ""

\* The form has a checkbox with this id
IsCheckbox(id) == id \in DOMAIN form /\ form[id].type = "checkbox"

\* C13: an element whose primary setting input is no checkbox and is empty
\* contributes nothing: when every element of the theme is such, no CSS and
\* no JS file is collected.
C13_EmptyFieldContributesNothing ==
  (Collected /\ \A k \in 1..Len(CollectedElements) : EmptyField(CollectedElements[k].setting))
    => Out.cssFiles = << >> /\ Out.jsFiles = << >>

\* The URLs of a list that name a file of the theme's elements
OwnUrls(files) == SelectSeq(files, LAMBDA u : u.theme # "")

\* The elements whose checkbox is checked, that declare a file and whose type is among types
ContributingOf(types) ==
  SelectSeq(CollectedElements,
            LAMBDA e : Checked(e.setting) /\ e.file # "" /\ e.type \in types)

\* C14: with checkboxes as primary inputs, each contributing element adds its
\* file URL by type (css: CSS list only, js: JS list only, both or none given:
\* each list), in the order of the theme's elements.
C14_ContributionByType ==
  (Collected /\ \A k \in 1..Len(CollectedElements) : IsCheckbox(CollectedElements[k].setting))
    => LET css == ContributingOf({"css", "both", ""})
           js  == ContributingOf({"js", "both", ""})
       IN /\ OwnUrls(Out.cssFiles) =
               [k \in 1..Len(css) |-> [type |-> "css", theme |-> CollectedTheme, file |-> css[k].file]]
          /\ OwnUrls(Out.jsFiles) =
               [k \in 1..Len(js) |-> [type |-> "js", theme |-> CollectedTheme, file |-> js[k].file]]

\* An active js element and an inactive css element have yielded one JS URL
\* and no CSS URL.
C14_ActiveJsInactiveCss ==
  /\ Collected
  /\ CollectedTheme = "t_types"
  /\ Checked("toggle_a")
  /\ IsCheckbox("toggle_b") /\ ~Checked("toggle_b")
  /\ Len(Out.jsFiles) = 1
  /\ Out.cssFiles = << >>

\* The extra options of the theme's elements, each with its owning element
ExtraOptions ==
  UNION { { [element |-> CollectedElements[k], opt |-> CollectedElements[k].extra_options[l]] :
              l \in 1..Len(CollectedElements[k].extra_options) } :
          k \in 1..Len(CollectedElements) }

\* C15: every extra option of type ignore declared on an element of the
\* theme has its key in jsOptions, with the value the environment map gives
\* it, whatever the inputs are.
C15_IgnoreAlwaysPopulates ==
  Collected =>
    \A x \in ExtraOptions :
      x.opt.type = "ignore" =>
        /\ x.opt.key \in DOMAIN Out.jsOptions
        /\ Out.jsOptions[x.opt.key] =
             (IF x.opt.key \in DOMAIN Window THEN Window[x.opt.key] ELSE "undefined")

\* The form has an auxiliary input with this id and it is active
AuxActive(id) ==
  /\ id \in DOMAIN form
  /\ IF form[id].type = "checkbox" THEN form[id].checked ELSE form[id].value # ""

\* How many entries of a list equal u
Count(files, u) == Cardinality({k \in 1..Len(files) : files[k] = u})

\* C16: a normal extra option adds its css/js assets only when its own
\* auxiliary input is active, and jsOptions[key] only when that input has a
\* non-empty value; with the input inactive or missing it adds nothing; with
\* the input active on an element whose checkbox is checked it adds them.
C16_NormalOptionNeedsActiveInput ==
  Collected =>
    \A x \in ExtraOptions :
      x.opt.type # "ignore" =>
        LET key == x.opt.key
            css == [type |-> "css", theme |-> "", file |-> x.opt.css]
            js  == [type |-> "js", theme |-> "", file |-> x.opt.js]
            owner == Checked(x.element.setting) /\ x.element.file # ""
        IN /\ ~AuxActive(key) =>
                /\ key \notin DOMAIN Out.jsOptions
                /\ Count(Out.cssFiles, css) = 0
                /\ Count(Out.jsFiles, js) = 0
           /\ key \in DOMAIN Out.jsOptions =>
                /\ AuxActive(key)
                /\ form[key].value # ""
                /\ Out.jsOptions[key] = form[key].value
           /\ (AuxActive(key) /\ owner) =>
                /\ x.opt.css # "" => Count(Out.cssFiles, css) = 1
                /\ x.opt.js # "" => Count(Out.jsFiles, js) = 1
                /\ key \in DOMAIN Out.jsOptions

\* An active auxiliary input has added its option's assets and its value.
C16_ActiveOptionCollected ==
  /\ Collected
  /\ CollectedTheme = "t_extras"
  /\ Checked("toggle_a")
  /\ "opt_a" \in DOMAIN form /\ form["opt_a"] = Field("v")
  /\ Out.cssFiles = << [type |-> "css", theme |-> "t_extras", file |-> "a"],
                       [type |-> "css", theme |-> "", file |-> "x.css"] >>
  /\ Out.jsFiles = << [type |-> "js", theme |-> "", file |-> "x.js"] >>
  /\ Out.jsOptions["opt_a"] = "v"

----------------------------------------------------------------------------
(* injectJSFilesAsync on its own: lists of JS files drawn from a set that   *)
(* has repeated entries, and fetches that settle in any order.              *)

TestJsUrls == {Url("js", "t", "a"), Url("js", "t", "b"), Url("js", "t", "c")}

MaxJsFiles == 3

\* The lists of at most MaxJsFiles entries over the three URLs
TestJsLists == UNION {[1..n -> TestJsUrls] : n \in 0..MaxJsFiles}

TestJsOptions == {<< >>, [opt_a |-> "v"], [opt_a |-> "v", opt_b |-> "undefined"]}

TestCssUrls == {Url("css", "t", "a"), Url("css", "t", "b")}

MaxCssFiles == 2

\* The lists of at most MaxCssFiles entries over the two URLs
TestCssLists == UNION {[1..n -> TestCssUrls] : n \in 0..MaxCssFiles}

\* The head of the served page: empty, or holding a stylesheet of its own
TestHeads == {<< >>, << Link(Url("css", "opac", "main"), "") >>}

\* An updatePreview that has collected its assets and is about to inject them
InjectInit ==
  \E cssFiles \in TestCssLists : \E jsFiles \in TestJsLists :
    \E jsOptions \in TestJsOptions : \E head \in TestHeads :
      AfterLoadOn(SavedForm,
                  Invocation("collected", "t",
                             [cssFiles |-> cssFiles, jsFiles |-> jsFiles, jsOptions |-> jsOptions],
                             SavedForm),
                  [head |-> head, body |-> << >>])

\* await injectCSSFiles(...); await injectJSFilesAsync(...) up to its await
Inject ==
  /\ inv # << >>
  /\ inv[1].pc = "collected"
  /\ LET js == InjectAssets(Cur, 1, inv[1].theme, inv[1].assets)
     IN Commit(IF PromiseAll(js.inv[1].pending) THEN InjectionSettled(js, 1) ELSE js)
  /\ UNCHANGED << Placement, posTimer, nOps, Session, Devices, Admin, page >>

InjectNext ==
  \/ Inject
  \/ \E i \in 1..Len(inv) : \E k \in 1..Len(inv[i].pending) : \E ok \in BOOLEAN : FetchDone(i, k, ok)
  \/ HideTimer

InjectSpec == InjectInit /\ [][InjectNext]_vars

\* Place of the first occurrence of u in files
FirstIndex(files, u) == CHOOSE k \in 1..Len(files) : files[k] = u /\ \A l \in 1..(k - 1) : files[l] # u

\* The positions of body that hold a fetched script
Fetched(body) == {k \in 1..Len(body) : body[k].src.type = "js"}

\* C11: the fetched scripts stand in the iframe body in the order of the
\* jsFiles list, whatever the order in which the fetches completed.
C11_ScriptsInListOrder ==
  \A i \in Invocations :
    docHolder = i =>
      \A p \in Fetched(doc.body) : \A q \in Fetched(doc.body) :
        p < q => FirstIndex(inv[i].assets.jsFiles, doc.body[p].src)
                   < FirstIndex(inv[i].assets.jsFiles, doc.body[q].src)

\* C12: a failed fetch neither prevents the injection of another JS file nor
\* makes the injection reject: every distinct URL whose fetch has succeeded
\* has its one script in the body, a failed one has none, and the injection
\* resolves as soon as every fetch has settled.
C12_FailureIsContained ==
  \A i \in Invocations :
    /\ inv[i].pc # "rejected"
    /\ inv[i].pc = "fetching" => inv[i].pending # << >>
    /\ (docHolder = i /\ inv[i].pc \in {"fetching", "hideWait", "done"}) =>
         \A url \in Range(inv[i].assets.jsFiles) :
           /\ (url \notin Range(inv[i].pending) /\ url \notin inv[i].failed)
                => Cardinality(ScriptsOf(doc.body, url)) = 1
           /\ url \in inv[i].failed => ScriptsOf(doc.body, url) = {}

\* An injection has resolved with one fetch failed and two scripts injected.
C12_ResolvedWithOneFailure ==
  \E i \in Invocations :
    /\ inv[i].pc \in {"hideWait", "done"}
    /\ docHolder = i
    /\ Cardinality(inv[i].failed) = 1
    /\ Cardinality(Fetched(doc.body)) = 2

\* Invocation i has a step of kind op for url among its steps.
Took(i, op, url) == \E k \in 1..Len(inv[i].steps) : inv[i].steps[k] = Step(op, url)

\* The promise of injectJSFilesAsync has resolved in invocation i.
InjectionResolved(i) == inv[i].pc \in {"hideWait", "done"} /\ inv[i].abort = "none"

\* C25: the promise of injectJSFilesAsync resolves only after every fetch it
\* started has settled: once it has resolved, each URL of jsFiles has its
\* script appended or its failure logged.
C25_ResolvedOnlyWhenAllSettled ==
  \A i \in Invocations :
    InjectionResolved(i) =>
      \A url \in Range(inv[i].assets.jsFiles) :
        Took(i, "js", url) \/ url \in inv[i].failed

\* An injection of three distinct files has resolved, two of its fetches
\* having failed.
C25_ResolvedAfterThreeFetches ==
  \E i \in Invocations :
    /\ InjectionResolved(i)
    /\ Cardinality(Range(inv[i].assets.jsFiles)) = 3
    /\ Cardinality(inv[i].failed) = 2

\* C26: the DOMContentLoaded signal is dispatched on the iframe document only
\* after all fetched scripts have been appended: within one injection no
\* fetched script is appended after a dispatch of the signal.
C26_NoScriptAfterSignal ==
  \A i \in Invocations :
    \A k \in 1..Len(inv[i].steps) : \A l \in 1..Len(inv[i].steps) :
      (inv[i].steps[k].op = "signal" /\ inv[i].steps[l].op = "js") => l < k

\* The positions of body that hold an options script
OptionsAt(body) == {k \in 1..Len(body) : body[k].src.type = "options"}

\* injectJSFilesAsync has been called in invocation i, on the document shown.
Injecting(i) ==
  /\ inv[i].pc \in {"fetching", "hideWait", "done"}
  /\ inv[i].abort = "none"
  /\ docHolder = i

\* C27: with a jsOptions that has a key, injectJSFilesAsync appends exactly
\* one options script, which assigns the serialized options to
\* window["<theme>ThemeOptions"], is tagged with the theme and stands before
\* every fetched script; with an empty jsOptions it appends none.
C27_OneOptionsScriptFirst ==
  \A i \in Invocations :
    Injecting(i) =>
      LET jsOptions == inv[i].assets.jsOptions
          T == inv[i].theme
      IN IF DOMAIN jsOptions = {}
         THEN OptionsAt(doc.body) = {}
         ELSE /\ Cardinality(OptionsAt(doc.body)) = 1
              /\ \A p \in OptionsAt(doc.body) :
                   /\ doc.body[p] = [tag |-> "script", theme |-> T,
                                     src |-> [type |-> "options", theme |-> T, file |-> ""],
                                     text |-> JSONstringify(jsOptions)]
                   /\ \A q \in Fetched(doc.body) : p < q

\* The options script stands in the body before two fetched scripts.
C27_OptionsThenTwoScripts ==
  \E i \in Invocations :
    /\ Injecting(i)
    /\ OptionsAt(doc.body) = {1}
    /\ Fetched(doc.body) = {2, 3}

\* How many times x occurs in the sequence q
Occurrences(q, x) == Cardinality({k \in 1..Len(q) : q[k] = x})

\* C28: within one injectJSFilesAsync call each distinct JS URL is fetched and
\* injected at most once, however many times it stands in jsFiles: it has at
\* most one fetch outstanding, at most one script appended, and never both.
C28_EachUrlAtMostOnce ==
  \A i \in Invocations :
    \A url \in Range(inv[i].assets.jsFiles) :
      /\ Occurrences(inv[i].pending, url) + Occurrences(inv[i].steps, Step("js", url)) <= 1
      /\ docHolder = i => Cardinality(ScriptsOf(doc.body, url)) <= 1

\* A list that names one URL three times has been injected as one script.
C28_ThriceListedInjectedOnce ==
  \E i \in Invocations :
    /\ InjectionResolved(i)
    /\ Len(inv[i].assets.jsFiles) = 3
    /\ Cardinality(Range(inv[i].assets.jsFiles)) = 1
    /\ docHolder = i
    /\ Cardinality(Fetched(doc.body)) = 1

\* C29: injectCSSFiles appends to the iframe head one stylesheet link per
\* entry of cssFiles, in the order of the list, each tagged with the theme;
\* nothing else changes the head.
C29_OneLinkPerCssFileInOrder ==
  [][ /\ Inject =>
          LET cssFiles == inv[1].assets.cssFiles
          IN doc'.head = doc.head \o
               [k \in 1..Len(cssFiles) |->
                  [tag |-> "link", src |-> cssFiles[k], text |-> << >>, theme |-> inv[1].theme]]
      /\ doc'.head # doc.head => Inject ]_vars

\* Two different stylesheets have been linked after the served page's own.
C29_TwoLinksAfterThePagesOwn ==
  /\ inv # << >>
  /\ inv[1].pc # "collected"
  /\ Len(doc.head) = 3
  /\ doc.head[1].theme = ""
  /\ doc.head[2].src = inv[1].assets.cssFiles[1]
  /\ doc.head[3].src = inv[1].assets.cssFiles[2]
  /\ doc.head[2].src # doc.head[3].src

----------------------------------------------------------------------------
(* DeviceLayoutEngine under Spec: switchToDevice and positionIframe *)

\* What a switchToDevice call can touch besides the record of its argument
SwitchEffects ==
  << currentDevice, deviceDisplay, iframe, navPending, onload, posTimer,
     overlayExists, overlayDisplay, overlayPointer, iframeStyle, overlayStyle >>

OnlyShown(d) == \A c \in DeviceKeys : (deviceDisplay[c] = "block") <=> (c = d)

AtRest == Quiescent /\ ~posTimer

\* scale = width of the screen region / baseWidth, width = baseWidth,
\* height = height of the screen region / scale, translate = the region's offset
Fitted(d) ==
  [ set       |-> TRUE,
    translate |-> << ScreenRect[d].left, ScreenRect[d].top >>,
    scale     |-> [num |-> ScreenRect[d].width, den |-> DEVICE_CONFIG[d].baseWidth],
    width     |-> DEVICE_CONFIG[d].baseWidth,
    height    |-> [num |-> ScreenRect[d].height * DEVICE_CONFIG[d].baseWidth,
                   den |-> ScreenRect[d].width] ]

\* Where the browser has a ResizeObserver its notification fits the iframe to
\* the new device even when the onload handler of the switch was replaced.
FittedWhereObserved ==
  (AtRest /\ resizeObserver /\ initialPreviewDone) => iframeStyle = Fitted(currentDevice)

EffectivePass ==
  \/ (PosTimer \/ Reposition) /\ iframe # "null" /\ isInitialized /\ overlayExists
  \/ Load /\ onload = SwitchHandler

\* C20: the overlay's transform, width and height are always those of the
\* iframe; and after each positionIframe pass that gets past its guards, as
\* after every change of them, they are the ones fitted to the screen region
\* of currentDevice.
C20_OverlayCoincidesWithIframe ==
  /\ [](overlayStyle = iframeStyle)
  /\ [][ (EffectivePass \/ iframeStyle' # iframeStyle \/ overlayStyle' # overlayStyle)
           => (currentDevice' \in DeviceKeys /\ iframeStyle' = Fitted(currentDevice')) ]_vars

\* The iframe and the overlay have been fitted to the phone's screen.
C20_FittedToPhone ==
  /\ currentDevice = "tel"
  /\ iframeStyle = Fitted("tel")
  /\ overlayStyle = Fitted("tel")

\* The fraction r is the decimal number hundredths / 100.
IsDecimal(r, hundredths) == r.num * 100 = hundredths * r.den

\* The fraction r is the whole number n.
IsWhole(r, n) == r.num = n * r.den

\* A positionIframe pass that gets past its guards while the phone is selected
PhonePass == EffectivePass /\ currentDevice' = "tel"

\* C21 as stated: after the switch from the desktop to the phone, whose
\* screen region is 325px wide and 650px tall, the layout pass yields
\* scale = 0.25, width = 500 and height = 2600.
C21_PhoneLayoutAsStated ==
  [][ PhonePass => /\ IsDecimal(iframeStyle'.scale, 25)
                   /\ iframeStyle'.width = 500
                   /\ IsWhole(iframeStyle'.height, 2600) ]_vars

\* C21, amended: after the switch from the desktop to the phone, whose screen
\* region is 325px wide and 650px tall, the layout pass yields
\* scale = 325 / 500 = 0.65, width = 500 and height = 650 / 0.65 = 1000.
C21_PhoneLayout ==
  [][ PhonePass => /\ IsDecimal(iframeStyle'.scale, 65)
                   /\ iframeStyle'.width = 500
                   /\ IsWhole(iframeStyle'.height, 1000) ]_vars

\* The desktop was left for the phone and the iframe laid out for it.
C21_SwitchedToPhoneAndLaidOut ==
  /\ lastKey = "tel"
  /\ deviceDisplay["ordi"] = "none"
  /\ iframeStyle.set
  /\ iframeStyle.width = DEVICE_CONFIG["tel"].baseWidth

----------------------------------------------------------------------------
(* initDevicePreviewSwitcher called again: the admin UI reinitializes *)

\* existing.remove(): the element with id theme-preview leaves the document;
\* the module variable iframe keeps referring to it.
RemoveExisting(ifr) == IF ifr = "attached" THEN "detached" ELSE ifr

\* initDevicePreviewSwitcher() on a page that was initialized before:
\* createIframe returns the iframe the module variable holds, and
\* switchToDevice(currentDevice) sets src on it, which loads nothing in an
\* iframe outside the document.
Reinit ==
  /\ page # "loading"
  /\ nOps < MaxOps
  /\ nOps' = nOps + 1
  /\ switchToDevice(currentDevice, RemoveExisting(iframe),
                    createIframe(ExistingRemoved(dom), iframe))
  /\ posTimer' = (posTimer \/ Observed(currentDevice))
  /\ UNCHANGED << Placement, resizeObserver, screens, Resizer, Grid, Session, Admin, page, overlayPointer,
                  previewDisabled, createDisabled, docHolder, doc, blocker, hideQueue, inv >>

ReinitNext ==
  \/ DOMContentLoaded
  \/ WindowLoad
  \/ Load
  \/ RafSwitch
  \/ HideTimer
  \/ PosTimer
  \/ Reposition
  \/ PreviewClick
  \/ \E d \in RadioKeys : SwitchDevice(d)
  \/ Reinit

ReinitSpec == Init /\ [][ReinitNext]_vars

\* C22: after every call of initDevicePreviewSwitcher, a repeated one
\* included, an iframe with id theme-preview is attached to the document and
\* it is the one the module variable iframe refers to.
C22_IframeAttachedAfterInit == page # "loading" => iframe = "attached"

----------------------------------------------------------------------------
(* updatePreview for a theme that rawThemes does not have (Spec) *)

\* The invocations that start in this step
Started == { i \in 1..Len(inv') : i > Len(inv) }

\* C23: an updatePreview called with a theme name absent from rawThemes has
\* nothing to do: the step that starts it neither reloads the iframe nor
\* touches its document, and the invocation never reaches the load, clean or
\* injection steps.
C23_UnknownThemeDoesNothing ==
  /\ [](\A i \in Invocations :
          inv[i].theme \notin Themes =>
            /\ inv[i].steps = << >>
            /\ inv[i].pending = << >>
            /\ inv[i].result = NoResult
            /\ inv[i].pc \in {"abortHide", "done"})
  /\ [][ (Started # {} /\ \A i \in Started : inv'[i].theme \notin Themes)
           => UNCHANGED << doc, docHolder, navPending, onload >> ]_vars

\* An updatePreview for an unknown theme has returned while the iframe's
\* document held injected assets.
C23_UnknownThemeOverAssets ==
  \E i \in Invocations :
    /\ inv[i].abort = "noTheme"
    /\ doc.head # << >>
    /\ doc.body # << >>

----------------------------------------------------------------------------
(* cleanOldAssets alone: documents that hold tagged and untagged elements   *)
(* of several themes, cleaned once and then again.                          *)

\* An element of the served page that is neither a link nor a script
Other(theme) == [tag |-> "div", src |-> NoUrl, text |-> << >>, theme |-> theme]

TestElements ==
  { Link(Url("css", "noel", "flocons"), "noel"),
    Link(Url("css", "opac", "main"), ""),
    Script(Url("js", "paques", "oeufs"), "paques"),
    Script(Url("js", "opac", "main"), ""),
    Other("noel") }

MaxElements == 2

\* The children of head or of body: at most MaxElements test elements
TestChildren == UNION {[1..n -> TestElements] : n \in 0..MaxElements}

TestDocuments == [head : TestChildren, body : TestChildren]

\* The document before the first cleaning, kept for comparison
Before == inv[1].result

\* An updatePreview that has its document and is about to call cleanOldAssets
CleanInit ==
  \E d \in TestDocuments :
    AfterLoadOn(SavedForm,
                [Invocation("clean", "noel", NoAssets, SavedForm)
                   EXCEPT !.steps = << Step("load", NoUrl) >>,
                          !.result = [known |-> FALSE, head |-> d.head, body |-> d.body]],
                d)

\* await cleanOldAssets(doc), on the document as it is and on the cleaned one
Clean ==
  /\ inv # << >>
  /\ inv[1].pc \in {"clean", "cleaned"}
  /\ doc' = cleanOldAssets(doc)
  /\ inv' = [inv EXCEPT ![1].pc = IF @ = "clean" THEN "cleaned" ELSE "cleanedAgain",
                         ![1].steps = Append(@, Step("clean", NoUrl))]
  /\ UNCHANGED << Placement, posTimer, nOps, Session, Devices, Admin, page, overlayPointer,
                  overlayExists, overlayDisplay, previewDisabled, createDisabled,
                  navPending, onload, docHolder, blocker, dom, hideQueue >>

CleanNext == Clean

CleanSpec == CleanInit /\ [][CleanNext]_vars

\* The links and scripts of a document that carry a data-theme tag
TaggedAssets(d) ==
  { e \in Range(d.head) \cup Range(d.body) : e.tag \in {"link", "script"} /\ e.theme # "" }

\* C24: after cleanOldAssets(doc) the document holds no link or script with a
\* data-theme tag, whatever the themes were; on a document that holds none,
\* as after a first call, it changes nothing.
C24_NoTaggedAssetLeft ==
  [][ Clean => /\ TaggedAssets(doc') = {}
               /\ (TaggedAssets(doc) = {} => doc' = doc) ]_vars

\* A document with a tagged link of one theme and a tagged script of another
\* has been cleaned twice.
C24_CleanedTwiceOverTwoThemes ==
  /\ inv # << >>
  /\ inv[1].pc = "cleanedAgain"
  /\ \E e \in TaggedAssets(Before) : e.tag = "link" /\ e.theme = "noel"
  /\ \E e \in TaggedAssets(Before) : e.tag = "script" /\ e.theme = "paques"

----------------------------------------------------------------------------
(* switchToDevice on the module as evaluated, before any iframe exists *)

\* switchToDevice(deviceKey) called before initDevicePreviewSwitcher has run
SwitchBeforeInit(deviceKey) ==
  /\ page = "loading"
  /\ nOps < MaxOps
  /\ nOps' = nOps + 1
  /\ switchToDevice(deviceKey, iframe, dom)
  /\ posTimer' = (posTimer \/ Observed(deviceKey))
  /\ UNCHANGED << Placement, resizeObserver, screens, Resizer, Grid, Session, Admin, page, overlayPointer,
                  previewDisabled, createDisabled, docHolder, doc, blocker, hideQueue, inv >>

LazyNext ==
  \/ \E d \in RadioKeys : SwitchBeforeInit(d)
  \/ Load
  \/ RafSwitch
  \/ HideTimer

LazySpec == Init /\ [][LazyNext]_vars

\* C30: switchToDevice with a known identifier while no iframe exists creates
\* the iframe and returns: it installs no onload handler for a reload, does
\* not show (or create) the overlay and leaves the styles positionIframe
\* writes as they are.
C30_FirstUseOnlyCreates ==
  [][ \A d \in DeviceKeys :
        (SwitchBeforeInit(d) /\ iframe = "null") =>
          /\ iframe' = "attached"
          /\ currentDevice' = d
          /\ UNCHANGED << onload, overlayExists, overlayDisplay, iframeStyle, overlayStyle,
                          isInitialized >> ]_vars

\* The iframe was created by a switch to the phone; nothing else was done.
C30_CreatedByFirstSwitch ==
  /\ iframe = "attached"
  /\ lastKey = "tel"
  /\ nOps = 1
  /\ onload = Unset
  /\ ~overlayExists
  /\ iframeStyle = NoStyle

----------------------------------------------------------------------------
(* positionIframe over the module states it can be called in *)

\* The styles a previous pass can have left
PriorStyles == {NoStyle} \cup {Layout(d) : d \in DeviceKeys}

\* A positionIframe call is due.  The iframe, isInitialized and the overlay
\* are as createIframe, the load listener and showLoadingOverlay can have left
\* them; the admin document holds any of the screen elements.
PositionInit ==
  /\ page = "interactive"
  /\ iframe \in {"null", "attached"}
  /\ currentDevice \in DeviceKeys
  /\ isInitialized \in BOOLEAN
  /\ overlayExists \in BOOLEAN
  /\ (overlayExists => iframe = "attached")
  /\ (isInitialized => overlayExists)
  /\ initialPreviewDone = isInitialized
  /\ deviceDisplay = [d \in DeviceKeys |-> IF d = currentDevice THEN "block" ELSE "none"]
  /\ overlayDisplay = IF overlayExists THEN "flex" ELSE "unset"
  /\ overlayPointer = "unset"
  /\ previewDisabled = TRUE
  /\ createDisabled = TRUE
  /\ editDisabled = FALSE
  /\ navPending = (iframe = "attached" /\ ~isInitialized)
  /\ onload = Unset
  /\ rafSwitch = FALSE
  /\ docHolder = 0
  /\ blocker \in {FALSE, isInitialized}
  /\ dom = [iframes    |-> IF iframe = "attached" THEN 1 ELSE 0,
            containers |-> IF iframe = "attached" THEN 1 ELSE 0,
            overlays   |-> IF overlayExists THEN 1 ELSE 0]
  /\ doc = FreshDocument
  /\ hideQueue = << >>
  /\ inv = << >>
  /\ form \in FormStates
  /\ themeSelectValue = NoTheme
  /\ visibleGroup = "none"
  /\ editing = "none"
  /\ htu = "idle"
  /\ submit = "idle"
  /\ enableTimers = 0
  /\ \E st \in PriorStyles :
       /\ iframeStyle = (IF isInitialized THEN st ELSE NoStyle)
       /\ overlayStyle = iframeStyle
  /\ posTimer = TRUE
  /\ resizeObserver \in BOOLEAN
  /\ screens \in SUBSET DeviceKeys
  /\ resizing = FALSE
  /\ resizeFrame = FALSE
  /\ frames = 0
  /\ isProcessingThemeAction = FALSE
  /\ del = << >>
  /\ buttonsDisabled = FALSE
  /\ cards = Themes
  /\ lastKey = currentDevice
  /\ nOps = 0

PositionNext == PosTimer

PositionSpec == PositionInit /\ [][PositionNext]_vars

\* positionIframe returns before its first assignment
Returns ==
  \/ iframe = "null"
  \/ ~isInitialized
  \/ ~overlayExists
  \/ ~HasConfig(currentDevice)
  \/ currentDevice \notin screens

\* C31: a positionIframe call changes no style of the iframe or of the overlay
\* (nor the container's display, written by the same block) when the iframe does
\* not exist, isInitialized is false, the overlay does not exist, currentDevice
\* has no profile, or the profile's screen element is not in the document.
C31_GuardedPassChangesNothing ==
  [][ (PosTimer /\ Returns) => UNCHANGED << iframeStyle, overlayStyle >> ]_vars

\* A pass has been made while the phone was selected and its screen element
\* was missing, everything else being in place: the desktop layout stayed.
C31_PassedWithoutPhoneScreen ==
  /\ ~posTimer
  /\ iframe = "attached" /\ isInitialized /\ overlayExists
  /\ currentDevice = "tel"
  /\ "tel" \notin screens
  /\ iframeStyle = Layout("ordi")
  /\ overlayStyle = Layout("ordi")

----------------------------------------------------------------------------
(* The loading overlay's pointer interaction *)

\* C32: the end of a hideLoadingOverlay grace delay disables the overlay's
\* pointer interaction, and from then on it stays disabled, also after a later
\* showLoadingOverlay has made the overlay visible again.
C32_PointerStaysDisabled ==
  /\ [][ HideTimer => overlayPointer' = "none" ]_vars
  /\ [][ overlayPointer = "none" => overlayPointer' = "none" ]_vars

\* After a grace delay ended, an updatePreview has shown the overlay again.
C32_ShownAgainAfterHide ==
  /\ overlayPointer = "none"
  /\ overlayDisplay = "flex"
  /\ inv # << >>
  /\ inv[Len(inv)].pc \notin {"done", "rejected"}

----------------------------------------------------------------------------
(* The load listener's one-time device switch *)

\* C33: the device switch the load listener schedules is scheduled by the
\* first load signal only and executed at most once, however many load signals
\* follow; isInitialized, once true, is never false again.
C33_SwitchScheduledOnce ==
  /\ [][ (~rafSwitch /\ rafSwitch') => (~initialPreviewDone /\ initialPreviewDone') ]_vars
  /\ [][ RafSwitch => (initialPreviewDone /\ ~rafSwitch') ]_vars
  /\ [][ initialPreviewDone => initialPreviewDone' ]_vars
  /\ [][ isInitialized => isInitialized' ]_vars

\* The scheduled switch has run and later reloads have given their load
\* signals: the one it forced, and the one of an updatePreview that is done.
C33_LoadedAgainAfterTheSwitch ==
  /\ initialPreviewDone
  /\ ~rafSwitch
  /\ ~navPending
  /\ isInitialized
  /\ inv # << >>
  /\ inv[1].pc = "done"
  /\ inv[1].abort = "none"

----------------------------------------------------------------------------
(* The interaction-blocking script and updatePreview *)

\* Invocation i ends its injection in this step: the promise of
\* injectJSFilesAsync resolves.
CompletesInjection(i) ==
  /\ i <= Len(inv)
  /\ inv[i].pc \in {"awaitLoad", "fetching"}
  /\ inv'[i].pc \in {"hideWait", "done"}
  /\ inv'[i].abort = "none"

\* C34: whenever an updatePreview completes its injection, the iframe's
\* current document contains the interaction-blocking script: it was there when
\* cleanOldAssets ran after the load signal, and only the arrival of a new
\* document takes it away.
C34_BlockedWhenInjectionCompletes ==
  /\ [](\A i \in Invocations : Took(i, "clean", NoUrl) => inv[i].blockedAtClean)
  /\ [][ (blocker /\ ~blocker') => (navPending /\ ~navPending') ]_vars
  /\ [][ \A i \in 1..Len(inv') : CompletesInjection(i) => blocker' ]_vars

----------------------------------------------------------------------------
(* What the preview core leaves alone *)

\* C35: collectThemeAssets and updatePreview only read the form.  A step that
\* changes the value or the checked state of an input is the user's own input
\* or the editor's reset button; no call of updatePreview, load signal,
\* collection, injection, timer or device switch changes one.  (rawThemes is
\* a constant of this module: no statement assigns into it.)
C35_PreviewCoreOnlyReads ==
  [][ form' # form => ((\E f \in FormStates : UserInput(f)) \/ ResetThemeOptions) ]_vars

\* A preview refresh has collected from the form and ended, and the device was
\* switched to the phone: the form is still the one the collector read.
C35_RefreshedAndSwitched ==
  /\ inv # << >>
  /\ inv[1].pc = "done"
  /\ inv[1].abort = "none"
  /\ inv[1].assets # NoAssets
  /\ inv[1].formAt = form
  /\ lastKey = "tel"
  /\ nOps = 2

----------------------------------------------------------------------------
(* The elements the preview creates in the admin document *)

\* C36: in every reachable state the admin document has at most one
\* #theme-preview iframe, at most one #iframe-fixed-container and at most one
\* #preview-loading-overlay, however often and in whatever order createIframe,
\* switchToDevice, showLoadingOverlay and updatePreview are called.
C36_AtMostOneOfEach ==
  /\ dom.iframes <= 1
  /\ dom.containers <= 1
  /\ dom.overlays <= 1

\* One of each exists after the overlay was shown by the first switch, by
\* load signals, by a preview refresh and by a switch to the phone.
C36_OneOfEachAfterRefreshAndSwitch ==
  /\ dom = [iframes |-> 1, containers |-> 1, overlays |-> 1]
  /\ inv # << >>
  /\ inv[1].pc = "done"
  /\ lastKey = "tel"
  /\ nOps = 2

----------------------------------------------------------------------------
(* The resize listener of setupAutoReposition *)

\* Variant of Continues in which the loop goes on whatever the flag.
ContinuesAlways(flag) == TRUE

\* if (!resizing) return; of updateDuringResize
Continues(flag) == flag

\* A resize event of the window: the listener starts the loop unless the
\* flag is set, and restarts the 120 ms timer.
Resize ==
  /\ nOps < MaxOps
  /\ nOps' = nOps + 1
  /\ resizing' = TRUE
  /\ frames' = IF resizing THEN frames ELSE frames + 1
  /\ resizeFrame' = TRUE
  /\ UNCHANGED << Placement, posTimer, Session, iframe, currentDevice, deviceDisplay, lastKey,
                  resizeObserver, screens, Grid, Admin, Preview, page, overlayPointer >>

\* The 120 ms timer fires: resizing = false
ResizeSettled ==
  /\ resizeFrame
  /\ resizeFrame' = FALSE
  /\ resizing' = FALSE
  /\ UNCHANGED << Placement, posTimer, nOps, Session, iframe, currentDevice, deviceDisplay,
                  lastKey, resizeObserver, screens, frames, Grid, Admin, Preview, page, overlayPointer >>

\* An animation frame runs one pending updateDuringResize callback.
updateDuringResize ==
  /\ frames > 0
  /\ IF Continues(resizing)
     THEN /\ Place(positionIframe(iframe, isInitialized, overlayExists, currentDevice, screens, Styles))
          /\ frames' = frames
     ELSE /\ frames' = frames - 1
          /\ UNCHANGED Placement
  /\ UNCHANGED << posTimer, nOps, Session, iframe, currentDevice, deviceDisplay, lastKey,
                  resizeObserver, screens, resizing, resizeFrame, Grid, Admin, Preview, page,
                  overlayPointer >>

ResizeNext ==
  \/ Resize
  \/ ResizeSettled
  \/ updateDuringResize
  \/ PosTimer

\* Timers fire and animation frames run.
ResizeSpec ==
  /\ PositionInit
  /\ [][ResizeNext]_vars
  /\ WF_vars(ResizeSettled)
  /\ WF_vars(updateDuringResize)

\* C37: after the last resize event the settle timer sets resizing to false,
\* a callback of the loop that finds it false schedules no further frame, and
\* the layout passes driven by resize come to an end.
C37_ResizeLoopStops ==
  /\ [][ ResizeSettled => ~resizing' ]_vars
  /\ [][ (updateDuringResize /\ ~resizing) => frames' = frames - 1 ]_vars
  /\ <>[](~resizing /\ ~resizeFrame /\ frames = 0)

\* Two resize events later the timer has fired and the loop has stopped,
\* leaving the layout of the selected device.
C37_StoppedAfterTwoResizes ==
  /\ nOps = 2
  /\ ~resizing
  /\ ~resizeFrame
  /\ frames = 0
  /\ isInitialized
  /\ currentDevice = "tablet"
  /\ "tablet" \in screens
  /\ iframeStyle = Layout("tablet")

\* C38: at most one updateDuringResize callback is pending at any time,
\* whatever the interleaving of resize events, settle timers and animation
\* frames.
C38_OneLoopAtATime == frames <= 1

----------------------------------------------------------------------------
(* The page left to itself after initDevicePreviewSwitcher *)

BootNext ==
  \/ DOMContentLoaded
  \/ WindowLoad
  \/ Load
  \/ RafSwitch
  \/ HideTimer
  \/ PosTimer

\* No user or form event; every event, animation frame and timer that is due
\* is delivered.
BootSpec ==
  /\ Init
  /\ [][BootNext]_vars
  /\ WF_vars(DOMContentLoaded)
  /\ WF_vars(WindowLoad)
  /\ WF_vars(Load)
  /\ WF_vars(RafSwitch)
  /\ WF_vars(HideTimer)
  /\ WF_vars(PosTimer)

\* Nothing of the preview is under way.
Settles ==
  /\ isInitialized
  /\ overlayDisplay = "none"
  /\ ~navPending
  /\ ~rafSwitch
  /\ hideQueue = << >>

\* C39: left to itself after initDevicePreviewSwitcher, the page reloads the
\* iframe finitely often: a reload starts only in the initialisation and in
\* the load listener's one-time switchToDevice, and the page comes to rest
\* with isInitialized true, the overlay hidden and no reload pending.
C39_BootComesToRest ==
  /\ [][ (~navPending /\ navPending') => (page = "loading" \/ (rafSwitch /\ ~rafSwitch')) ]_vars
  /\ [][ (~rafSwitch /\ rafSwitch') => ~initialPreviewDone ]_vars
  /\ <>[]Settles

\* The page is at rest after the reload the one-time switch forced.
C39_AtRestAfterForcedReload ==
  /\ Settles
  /\ page = "complete"
  /\ initialPreviewDone
  /\ onload = SwitchHandler
  /\ ~posTimer
  /\ iframeStyle = Layout("ordi")

----------------------------------------------------------------------------
(* The delete buttons of the theme cards *)

\* Variant of Processing that never finds an action under way.
ProcessingNever(flag) == FALSE

\* if (isProcessingThemeAction) return;
Processing(flag) == flag

\* What the delete handlers leave alone
Page == << Placement, Session, page, form, htu, submit, enableTimers, editDisabled,
           iframe, currentDevice, deviceDisplay, lastKey, resizeObserver, screens, Resizer >>

\* The page after a preview refresh, with a card for each theme
DeleteInit ==
  \E f \in FormStates : \E t \in Themes :
    AfterLoad(f, Invocation("done", t, NoAssets, f))

\* click on the delete button of theme t's card, up to the first await of
\* deleteTheme (the confirmation notification)
DeleteClick(t) ==
  /\ t \in cards
  /\ ~buttonsDisabled
  /\ nOps < MaxOps
  /\ nOps' = nOps + 1
  /\ IF Processing(isProcessingThemeAction)
     THEN UNCHANGED Grid
     ELSE /\ isProcessingThemeAction' = TRUE
          /\ buttonsDisabled' = TRUE
          /\ del' = Append(del, [pc |-> "confirm", theme |-> t])
          /\ UNCHANGED cards
  /\ UNCHANGED << Page, posTimer, Preview, overlayPointer, themeSelectValue, visibleGroup, editing >>

\* finally { enableAllActionButtons(); isProcessingThemeAction = false; } of handler i
Finally(i) ==
  /\ del' = Without(del, i)
  /\ buttonsDisabled' = FALSE
  /\ isProcessingThemeAction' = FALSE

\* The notification of handler i is answered: without a confirmation
\* deleteTheme returns, with one it sends the DELETE request.
ConfirmSettled(i, confirmed) ==
  /\ del[i].pc = "confirm"
  /\ IF confirmed
     THEN /\ del' = [del EXCEPT ![i].pc = "delete"]
          /\ UNCHANGED << isProcessingThemeAction, buttonsDisabled >>
     ELSE Finally(i)
  /\ UNCHANGED << Page, nOps, cards, posTimer, Preview, overlayPointer, themeSelectValue,
                  visibleGroup, editing >>

\* The DELETE request of handler i settles: on success the card, if there is
\* one, fades for 300 ms; on failure the catch block notifies and the handler ends.
DeleteSettled(i, success) ==
  /\ del[i].pc = "delete"
  /\ IF success
     THEN /\ del' = [del EXCEPT ![i].pc = IF del[i].theme \in cards THEN "fade" ELSE "refresh"]
          /\ UNCHANGED << isProcessingThemeAction, buttonsDisabled >>
     ELSE Finally(i)
  /\ UNCHANGED << Page, nOps, cards, posTimer, Preview, overlayPointer, themeSelectValue,
                  visibleGroup, editing >>

\* The 300 ms timer of handler i fires: the card is removed and onSuccess
\* awaits refreshThemesGridFromAPI.
CardFaded(i) ==
  /\ del[i].pc = "fade"
  /\ cards' = cards \ {del[i].theme}
  /\ del' = [del EXCEPT ![i].pc = "refresh"]
  /\ UNCHANGED << Page, nOps, isProcessingThemeAction, buttonsDisabled, posTimer, Preview,
                  overlayPointer, themeSelectValue, visibleGroup, editing >>

\* refreshThemesGridFromAPI of handler i settles: the grid is rendered anew,
\* refreshThemeSelect leaves v selected, exitThemeEditor runs when the deleted
\* theme is the current one, and the handler ends through its finally block.
DeleteRefreshed(i, v, current) ==
  /\ del[i].pc = "refresh"
  /\ Finally(i)
  /\ cards' = cards \ {del[i].theme}
  /\ themeSelectValue' = v
  /\ IF current
     THEN /\ visibleGroup' = updateThemeOptions(v, visibleGroup)
          /\ Commit(updatePreview(Cur, v))
          /\ editing' = "none"
          /\ posTimer' = (posTimer \/ SchedulesReposition(v))
     ELSE UNCHANGED << visibleGroup, editing, posTimer, Preview, overlayPointer >>
  /\ UNCHANGED << Page, nOps >>

\* renderThemesGrid of another flow (the refresh of handleThemeUpdate) writes
\* the cards anew: their buttons are enabled.
GridRendered ==
  /\ buttonsDisabled
  /\ buttonsDisabled' = FALSE
  /\ UNCHANGED << Page, nOps, isProcessingThemeAction, del, cards, posTimer, Preview,
                  overlayPointer, themeSelectValue, visibleGroup, editing >>

DeleteNext ==
  \/ \E t \in Themes : DeleteClick(t)
  \/ \E i \in 1..Len(del) : \E confirmed \in BOOLEAN : ConfirmSettled(i, confirmed)
  \/ \E i \in 1..Len(del) : \E success \in BOOLEAN : DeleteSettled(i, success)
  \/ \E i \in 1..Len(del) : CardFaded(i)
  \/ \E i \in 1..Len(del) : \E v \in Themes \cup {NoTheme} : \E current \in BOOLEAN :
       DeleteRefreshed(i, v, current)
  \/ GridRendered
  \/ Load
  \/ HideTimer
  \/ \E i \in 1..Len(inv) : \E k \in 1..Len(inv[i].pending) : \E ok \in BOOLEAN : FetchDone(i, k, ok)

DeleteSpec == DeleteInit /\ [][DeleteNext]_vars

\* C40: at most one delete action is processed at a time.  From the moment a
\* delete click handler has set isProcessingThemeAction until its finally
\* block, also while its notification is pending or the grid has fresh
\* buttons, a further delete click starts no deleteTheme.
C40_OneDeleteAtATime ==
  /\ [](Len(del) <= 1)
  /\ [](isProcessingThemeAction <=> del # << >>)
  /\ [][ \A t \in Themes : (DeleteClick(t) /\ del # << >>) => del' = del ]_vars

\* While the notification of a delete is pending the grid got fresh buttons
\* and a second delete click was made: still one handler.
C40_SecondClickOnFreshButtons ==
  /\ isProcessingThemeAction
  /\ Len(del) = 1
  /\ del[1].pc = "confirm"
  /\ ~buttonsDisabled
  /\ nOps = 2

====
